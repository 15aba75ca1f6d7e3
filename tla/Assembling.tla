----------------------------- MODULE Assembling -----------------------------
(***************************************************************************)
(* From assembly to the program (compiler.c): the text is assembled, and   *)
(* the object is written as a program (.exe), as an ELF file that a linker *)
(* makes the program of, or as a COFF file. A COFF file, that one or one   *)
(* of LLVM, is read into an object again and written as a program.         *)
(*                                                                         *)
(* An image is a program as it is in memory: the bytes of its sections and *)
(* where they are, [sections, rva, base, entry, directory, externs].       *)
(***************************************************************************)
EXTENDS Assembler, ObjectWriter

CONSTANTS
    Objects,            \* COFF files of LLVM
    Libraries           \* The library of each extern that isn't in the C runtime

VARIABLES
    file,               \* The object file that was written or is read
    placed,             \* Where coff_read() put the sections of it
    image               \* The program
vars == <<source, line, pc, error, obj, section, scope, items, label_item, offsets, file, placed, image>>

NoFile == [sections |-> <<>>, symbols |-> <<>>, rela |-> <<>>]
NoImage == [sections |-> <<>>, rva |-> <<>>, base |-> Word(0), entry |-> 0, directory |-> 0, externs |-> <<>>]
COFF(f) == [sections |-> f.sections, symbols |-> f.symbols, rela |-> <<>>]

Init ==
    /\ placed = <<>>
    /\ image = NoImage
    /\ \/ assembler_init /\ file = NoFile
       \/ /\ file \in Objects
          /\ source = <<>> /\ line = 1 /\ pc = "object" /\ error = "" /\ obj = EmptyObject /\ section = "text" /\ scope = <<>>
          /\ items = <<>> /\ label_item = <<>> /\ offsets = <<>>

done == UNCHANGED <<source, line, section, scope, items, label_item, offsets>>

\* The libraries of the externs, which the IR knows
withLibraries(o) ==
    LET known(s) == IF s.name \in DOMAIN Libraries THEN [s EXCEPT !.library = Libraries[s.name]] ELSE s
    IN  [o EXCEPT !.symbols = [i \in DOMAIN @ |-> known(@[i])]]

\* The object isn't written, or isn't read
refuse(message) ==
    /\ pc' = "unwritten"
    /\ error' = message

write_exe ==
    LET o == withLibraries(obj) IN
    /\ pc \in {"assembled", "read"}
    /\ done /\ UNCHANGED <<file, placed>>
    /\ obj' = o
    /\ IF peError(o) # "" THEN refuse(peError(o)) /\ UNCHANGED image
       ELSE /\ image' = pe_write(o)
            /\ pc' = "written"
            /\ error' = error

write_elf ==
    LET o == withLibraries(obj) IN
    /\ pc = "assembled"
    /\ done /\ UNCHANGED <<placed, image, error>>
    /\ obj' = o
    /\ file' = elf_write(o, "ms_")
    /\ pc' = "linking"

write_coff ==
    /\ pc = "assembled"
    /\ done /\ UNCHANGED <<placed, image, error, obj>>
    /\ file' = COFF(coff_write(obj))
    /\ pc' = "object"

read_coff ==
    LET read == coff_read(file) IN
    /\ pc = "object"
    /\ done /\ UNCHANGED <<image, file>>
    /\ obj' = read.o
    /\ placed' = read.placed
    /\ IF read.error # "" THEN refuse(read.error) ELSE pc' = "read" /\ error' = error

\* What a linker does with an ELF file: it gives the sections and the externs addresses, and fills in the fields
elfAddress(k) == 16 + \h1000 * k
linked ==
    LET externAddress(i) == \h100000 + 16 * i
        addressOf(i) == LET s == file.symbols[i] IN IF s.section = 0 THEN externAddress(i) ELSE elfAddress(s.section) + s.value
        field(k, r) == CASE r.type = 1 -> Plus(Word(addressOf(r.target)), r.addend)
                         [] r.type = 2 -> u32(Plus(Word(addressOf(r.target) - (elfAddress(k) + r.offset)), r.addend))
                         [] r.type = 10 -> u32(Plus(Word(file.symbols[r.target].value), r.addend))
        bytesOf(k) == FoldLeft(LAMBDA b, r : putAt(b, r.offset, field(k, r)), file.sections[k].bytes, file.rela[k])
        names == {file.sections[k].name : k \in DOMAIN file.sections}
        number(name) == CHOOSE k \in DOMAIN file.sections : file.sections[k].name = name
        externs == {i \in DOMAIN file.symbols : file.symbols[i].section = 0}
    IN  [NoImage EXCEPT !.sections = [s \in names |-> bytesOf(number(s))], !.rva = [s \in names |-> elfAddress(number(s))],
                        !.externs = [a \in {externAddress(i) : i \in externs} |-> file.symbols[CHOOSE i \in externs : externAddress(i) = a].name]]
link ==
    /\ pc = "linking"
    /\ done /\ UNCHANGED <<obj, file, placed, error>>
    /\ image' = linked
    /\ pc' = "written"

finished == pc \in {"written", "unwritten", "failed"} /\ UNCHANGED vars
others == <<file, placed, image>>
assemble == x64_assemble /\ UNCHANGED others
Next == assemble \/ write_exe \/ write_elf \/ write_coff \/ read_coff \/ link \/ finished

Fairness == WF_vars(asm_layout /\ UNCHANGED others)     \* The loop of asm_layout() goes on until a round changes nothing
Spec == Init /\ [][Next]_vars /\ Fairness
=============================================================================
