----------------------------- MODULE Assembler -----------------------------
(***************************************************************************)
(* The assembler (x64_assemble of x64_asm.c): it reads the lines that      *)
(* x64_emit.c writes, one after the other, into the bytes of the sections, *)
(* the symbols and the relocations. The code is kept as items until the    *)
(* end, when the jumps get their sizes. A line is one of                   *)
(*                                                                         *)
(*   [is |-> "label", name], [is |-> "section", section],                  *)
(*   [is |-> "extern", name], [is |-> "global", name],                     *)
(*   [is |-> "data", size, values]      db, dw, dd, dq                     *)
(*   [is |-> "times", count, value], [is |-> "align", to],                 *)
(*   [is |-> "instruction", m, cc, ops]    cc is the condition of j, set   *)
(***************************************************************************)
EXTENDS X64Asm

CONSTANTS
    Sources,            \* The texts to assemble: sequences of lines
    Encode(_, _, _)     \* The table of instructions: the bytes of a mnemonic, its condition and its operands (asm_encode)

VARIABLES
    source, line,       \* The text and the number of the next line
    pc,                 \* "lines", "layout", "finish", "check", "assembled" or "failed"
    error,
    obj,                \* The AsmObject
    section, scope,     \* The current section, and the last label that doesn't start with '.'
    items,              \* The instructions of the text
    label_item,         \* The item that each label of the text is before
    offsets             \* Where each item is, after a round of asm_layout

asVars == <<source, line, pc, error, obj, section, scope, items, label_item, offsets>>

Symbol(name) == [name |-> name, section |-> "none", offset |-> 0, is_global |-> FALSE, is_extern |-> FALSE, library |-> ""]
EmptyObject == [sections |-> [text |-> <<>>, data |-> <<>>, rdata |-> <<>>], alignment |-> [text |-> 16, data |-> 8, rdata |-> 8],
                extra |-> <<>>, symbols |-> <<>>, relocs |-> <<>>]

symbolIndex(symbols, name) == SelectInSeq(symbols, LAMBDA s : s.name = name)

\* The symbol with the name is made when there is none yet
asm_symbol(symbols, name) == IF symbolIndex(symbols, name) = 0 THEN Append(symbols, Symbol(name)) ELSE symbols

asm_align(bytes, align, fill) == bytes \o [i \in 1..((-Len(bytes)) % align) |-> fill]

assembler_init ==
    /\ source \in Sources
    /\ line = 1
    /\ pc = "lines"
    /\ error = ""
    /\ obj = EmptyObject
    /\ section = "text"
    /\ scope = <<>>
    /\ items = <<>>
    /\ label_item = <<>>
    /\ offsets = <<>>

asm_fail(message) ==
    /\ pc' = "failed"
    /\ error' = message

-----------------------------------------------------------------------------
(* The lines                                                               *)

text == source[line]
reading(kind) == pc = "lines" /\ line <= Len(source) /\ text.is = kind /\ line' = line + 1 /\ UNCHANGED <<source, offsets>>
going == pc' = pc /\ error' = error

label ==
    LET name == asm_symbol_name(text.name, scope)
        symbols == asm_symbol(obj.symbols, name)
        i == symbolIndex(symbols, name)
    IN  /\ reading("label")
        /\ scope' = IF text.name.dot THEN scope ELSE name
        /\ UNCHANGED <<section, items>>
        /\ IF symbols[i].section # "none" \/ name \in DOMAIN label_item
           THEN asm_fail("label already defined") /\ UNCHANGED <<obj, label_item>>
           ELSE /\ going
                /\ IF section = "text"
                   THEN /\ label_item' = [n \in DOMAIN label_item \cup {name} |-> IF n = name THEN Len(items) + 1 ELSE label_item[n]]
                        /\ obj' = [obj EXCEPT !.symbols = symbols]
                   ELSE /\ obj' = [obj EXCEPT !.symbols = [symbols EXCEPT ![i].section = section, ![i].offset = Len(obj.sections[section])]]
                        /\ UNCHANGED label_item

sectionNames == {".text", ".data", ".rdata", ".rodata"}
sectionOf(name) == CASE name = ".text" -> "text" [] name = ".data" -> "data" [] OTHER -> "rdata"

section_line ==
    /\ reading("section")
    /\ UNCHANGED <<obj, scope, items, label_item>>
    /\ IF text.section \in sectionNames
       THEN section' = sectionOf(text.section) /\ going
       ELSE asm_fail("unknown section") /\ UNCHANGED section

declare_line ==
    LET name == asm_symbol_name(text.name, <<>>)
        symbols == asm_symbol(obj.symbols, name)
        i == symbolIndex(symbols, name)
    IN  /\ reading("extern") \/ reading("global")
        /\ obj' = [obj EXCEPT !.symbols = IF text.is = "extern" THEN [symbols EXCEPT ![i].is_extern = TRUE] ELSE [symbols EXCEPT ![i].is_global = TRUE]]
        /\ UNCHANGED <<section, scope, items, label_item>>
        /\ going

\* The symbols that relocations name
asm_symbols(symbols, relocs) == LET made[i \in 0..Len(relocs)] == IF i = 0 THEN symbols ELSE asm_symbol(made[i - 1], relocs[i].symbol) IN made[Len(relocs)]

\* A line of data has numbers, and with dq the addresses of symbols
dataBytes == FlattenSeq([i \in DOMAIN text.values |-> IF text.values[i].is = "number" THEN SubSeq(asm_parse_number(text.values[i]), 1, text.size) ELSE Word(0)])
valueReloc(name, at) == [Reloc(at, "abs64", asm_symbol_name(name, scope), Word(0)) EXCEPT !.section = section]
dataRelocs == FlattenSeq([i \in DOMAIN text.values |->
    IF text.values[i].is = "number" THEN <<>> ELSE <<valueReloc(text.values[i].name, Len(obj.sections[section]) + text.size * (i - 1))>>])

asm_data_line ==
    /\ reading("data")
    /\ UNCHANGED <<section, scope, items, label_item>>
    /\ IF text.size # 8 /\ \E v \in Range(text.values) : v.is # "number"
       THEN asm_fail("not a number") /\ UNCHANGED obj
       ELSE obj' = [obj EXCEPT !.sections[section] = @ \o dataBytes, !.symbols = asm_symbols(@, dataRelocs), !.relocs = @ \o dataRelocs] /\ going

times_line ==
    /\ reading("times")
    /\ obj' = [obj EXCEPT !.sections[section] = @ \o [i \in 1..text.count |-> text.value]]
    /\ UNCHANGED <<section, scope, items, label_item>>
    /\ going

align_line ==
    /\ reading("align")
    /\ UNCHANGED <<section, scope, items, label_item>>
    /\ LET aligned == [obj EXCEPT !.alignment[section] = IF text.to > @ THEN text.to ELSE @] IN
       IF section = "text" THEN asm_fail("align in the text section") /\ obj' = aligned
       ELSE obj' = [aligned EXCEPT !.sections[section] = asm_align(@, text.to, 0)] /\ going

\* A jump starts as a short one, and isn't encoded before the layout is known
Jump(condition, target) == [is_jump |-> TRUE, condition |-> condition, target |-> target, is_short |-> TRUE, size |-> 0, bytes |-> <<>>, relocs |-> <<>>]
Item(e) == [is_jump |-> FALSE, condition |-> -1, target |-> <<>>, is_short |-> FALSE, size |-> Len(e.bytes), bytes |-> e.bytes, relocs |-> e.relocs]

operandsOf(instruction, last) == [i \in DOMAIN instruction.ops |-> asm_parse_operand(instruction.ops[i], last)]

asm_instruction ==
    reading("instruction") /\
    \E ops \in {operandsOf(text, scope)} :
    \E e \in {enc_finish(Encode(text.m, text.cc, ops))} :
    LET cc == IF text.m = "j" THEN asm_condition(text.cc) ELSE -1
        isJump == (text.m = "jmp" \/ cc >= 0) /\ Len(ops) = 1 /\ Last(ops).kind = "label"
    IN  /\ UNCHANGED <<section, scope, label_item>>
        /\ CASE section # "text" -> asm_fail("outside of the text section") /\ UNCHANGED <<obj, items>>
             [] section = "text" /\ \E op \in Range(ops) : ~op.ok -> asm_fail("unknown operand") /\ UNCHANGED <<obj, items>>
             [] section = "text" /\ (\A op \in Range(ops) : op.ok) /\ isJump ->
                    /\ items' = Append(items, Jump(cc, ops[1].symbol))
                    /\ obj' = [obj EXCEPT !.symbols = asm_symbol(@, ops[1].symbol)]
                    /\ going
             [] section = "text" /\ (\A op \in Range(ops) : op.ok) /\ ~isJump /\ ~e.ok -> asm_fail("unknown instruction") /\ UNCHANGED <<obj, items>>
             [] OTHER ->
                    /\ items' = Append(items, Item(e))
                    /\ obj' = [obj EXCEPT !.symbols = asm_symbols(@, e.relocs)]
                    /\ going

end_of_source ==
    /\ pc = "lines" /\ line > Len(source)
    /\ pc' = "layout"
    /\ UNCHANGED <<source, line, error, obj, section, scope, items, label_item, offsets>>

\* The section of a line, and the labels that can be the last one before a line
SectionBefore(lines, k) == LET before == {j \in 1..(k - 1) : lines[j].is = "section"} IN IF before = {} THEN "text" ELSE sectionOf(lines[Max(before)].section)
Scopes(lines) == {<<>>} \cup {asm_symbol_name(l.name, <<>>) : l \in {k \in Range(lines) : k.is = "label"}}

\* The texts are sequences of lines, with so little code that a displacement fits its 32 bits. x64_emit.c writes data only
\* after a section line of data (x64_emit.c:1229-1247)
LongestInstruction == 15
IsText(lines) ==
    /\ lines \in Seq(Range(lines))
    /\ LongestInstruction * Len(lines) <= 2147483647
    /\ \A k \in DOMAIN lines : lines[k].is \in {"data", "times"} => SectionBefore(lines, k) # "text"
IsName(name) == name.parts \in Seq(Range(name.parts))
IsOperand(op) ==
    /\ op.is \in {"word", "number", "name", "memory", "rel"}
    /\ op.is \in {"name", "rel"} => IsName(op.name)
    /\ op.is = "memory" => \A t \in Range(op.terms) : t.is \in {"register", "number"} /\ t.sign \in {"+", "-"}
IsLine(l) ==
    /\ l.is \in {"label", "section", "extern", "global", "data", "times", "align", "instruction"}
    /\ l.is \in {"label", "extern", "global"} => IsName(l.name)
    /\ l.is = "data" => /\ l.values \in Seq(Range(l.values))
                        /\ \A v \in Range(l.values) : v.is \in {"number", "name"} /\ (v.is = "name" => IsName(v.name))
    /\ l.is = "instruction" => l.ops \in Seq(Range(l.ops)) /\ \A op \in Range(l.ops) : IsOperand(op)

\* The table gives no more bytes than an instruction can have, whichever label is before it, with a relocation for each
\* name, and the jumps aren't in it
NamedIn(l, ops) == {ops[i].symbol : i \in {j \in DOMAIN l.ops : l.ops[j].is = "rel" \/ ops[j].kind = "label"}}
IsEncoding(e, l, ops) ==
    /\ {"ok", "bytes", "relocs"} \subseteq DOMAIN e
    /\ e.bytes \in Seq(0..255) /\ Len(e.bytes) <= LongestInstruction
    /\ e.relocs \in Seq(Range(e.relocs))
    /\ \A r \in Range(e.relocs) : {"symbol", "offset"} \subseteq DOMAIN r
    /\ e.ok => {r.symbol : r \in Range(e.relocs)} = NamedIn(l, ops)
    /\ l.m \in {"jmp", "j"} => ~e.ok
ASSUME SourcesAssumption ==
    \A lines \in Sources : /\ IsText(lines)
                           /\ \A l \in Range(lines) :
                                 /\ IsLine(l)
                                 /\ l.is = "instruction" => \A last \in Scopes(lines) : \E ops \in {operandsOf(l, last)} : IsEncoding(Encode(l.m, l.cc, ops), l, ops)

-----------------------------------------------------------------------------
(* The text: the jumps get their sizes, and the labels their offsets       *)

jumpSize(item) == IF item.is_short THEN 2 ELSE IF item.condition < 0 THEN 5 ELSE 6

itemOffsets(list) == LET at[i \in 1..(Len(list) + 1)] == IF i = 1 THEN 0 ELSE at[i - 1] + list[i - 1].size IN at

\* The mistake of a displacement that is one too far
reachesShortOneMore(item, i, at) == item.target \in DOMAIN label_item /\ (at[label_item[item.target]] - (at[i] + 2)) \in -128..128
reachesShort(item, i, at) == item.target \in DOMAIN label_item /\ (at[label_item[item.target]] - (at[i] + 2)) \in -128..127

sizedItems == [i \in DOMAIN items |-> IF items[i].is_jump THEN [items[i] EXCEPT !.size = jumpSize(items[i])] ELSE items[i]]
grown(list, at) == [i \in DOMAIN list |-> IF list[i].is_jump /\ list[i].is_short /\ ~reachesShort(list[i], i, at) THEN [list[i] EXCEPT !.is_short = FALSE] ELSE list[i]]

\* The mistake of not resetting changed before a round
asm_layoutNotReset ==
    /\ pc = "layout"
    /\ offsets' = itemOffsets(sizedItems)
    /\ items' = grown(sizedItems, offsets')
    /\ pc' = IF \A i \in DOMAIN items : items'[i].is_jump => items'[i].is_short THEN "finish" ELSE "layout"
    /\ UNCHANGED <<source, line, error, obj, section, scope, label_item>>

\* One round: the offsets, then the short jumps that don't reach become long
asm_layout ==
    /\ pc = "layout"
    /\ offsets' = itemOffsets(sizedItems)
    /\ items' = grown(sizedItems, offsets')
    /\ pc' = IF items' = sizedItems THEN "finish" ELSE "layout"
    /\ UNCHANGED <<source, line, error, obj, section, scope, label_item>>

jumpBytes(item, i) ==
    LET displacement == Word(offsets[label_item[item.target]] - (offsets[i] + item.size)) IN
    CASE item.is_short -> <<IF item.condition < 0 THEN \hEB ELSE \h70 + item.condition>> \o SubSeq(displacement, 1, 1)
      [] ~item.is_short -> (IF item.condition < 0 THEN <<\hE9>> ELSE <<\h0F, \h80 + item.condition>>) \o SubSeq(displacement, 1, 4)

\* An item goes after the ones before it, and its relocations move with it
itemBytes(i) == IF items[i].is_jump THEN jumpBytes(items[i], i) ELSE items[i].bytes
textBytes(n) == FlattenSeq([i \in 1..n |-> itemBytes(i)])
itemRelocs(i) == LET start == Len(obj.sections.text) + Len(textBytes(i - 1)) IN [r \in DOMAIN items[i].relocs |-> [items[i].relocs[r] EXCEPT !.offset = start + @]]
textRelocs == FlattenSeq([i \in DOMAIN items |-> itemRelocs(i)])

placedSymbol(s) == IF s.name \in DOMAIN label_item THEN [s EXCEPT !.section = "text", !.offset = offsets[label_item[s.name]]] ELSE s

asm_finish_text ==
    /\ pc = "finish"
    /\ UNCHANGED <<source, line, section, scope, items, label_item, offsets>>
    /\ IF \E i \in DOMAIN items : items[i].is_jump /\ items[i].target \notin DOMAIN label_item
       THEN asm_fail("a jump to what isn't a label of the code") /\ UNCHANGED obj
       ELSE /\ obj' = [obj EXCEPT !.sections.text = @ \o textBytes(Len(items)), !.relocs = @ \o textRelocs, !.symbols = [i \in DOMAIN @ |-> placedSymbol(@[i])]]
            /\ pc' = "check"
            /\ error' = error

\* Every symbol that is used is defined, or is an extern
check_symbols ==
    /\ pc = "check"
    /\ UNCHANGED <<source, line, obj, section, scope, items, label_item, offsets>>
    /\ IF \E s \in Range(obj.symbols) : s.section = "none" /\ ~s.is_extern
       THEN asm_fail("not defined") ELSE pc' = "assembled" /\ error' = error

-----------------------------------------------------------------------------
(* Properties of the layout                                                *)

JumpItems == {i \in DOMAIN items : items[i].is_jump}
ShortJumps == {i \in JumpItems : items[i].is_short}

\* Whether all of the jumps of a set reach their labels when they, and no others, are short
sizeWhen(short, i) == IF i \in JumpItems THEN jumpSize([is_short |-> i \in short, condition |-> items[i].condition]) ELSE items[i].size
CanBeShort(short) ==
    LET at == itemOffsets([i \in DOMAIN items |-> [size |-> sizeWhen(short, i)]])
    IN  \A i \in short : reachesShort(items[i], i, at)

\* The jumps are as short as they can be, as the header of x64_asm.c says: no choice of short jumps in which all of them
\* reach has one that is long here, though asm_layout only ever looks at the jumps that are short in its last round.
JumpsShortest == pc = "finish" => \A short \in SUBSET JumpItems : CanBeShort(short) => short \subseteq ShortJumps

\* What asm_finish_text writes into the one byte of a short jump is its displacement: the offsets it takes are those of
\* the sizes that the items have now, and with them every short jump reaches its label.
ShortJumpsReach == pc = "finish" => /\ offsets = itemOffsets(items)
                                    /\ \A i \in ShortJumps : reachesShort(items[i], i, offsets)

\* A round of asm_layout makes a short jump long, or is the last one; and no jump that is long gets short again. So the
\* loop, which has no other bound, ends.
RoundsGrow == pc = "layout" => /\ JumpItems' = JumpItems /\ ShortJumps' \subseteq ShortJumps
                               /\ pc' = "finish" \/ (pc' = "layout" /\ ShortJumps' # ShortJumps)
-----------------------------------------------------------------------------

x64_assemble == label \/ section_line \/ declare_line \/ asm_data_line \/ times_line \/ align_line \/ asm_instruction
                \/ end_of_source \/ asm_layout \/ asm_finish_text \/ check_symbols
=============================================================================
