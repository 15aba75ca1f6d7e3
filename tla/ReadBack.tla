------------------------------ MODULE ReadBack ------------------------------
(***************************************************************************)
(* The parser on files that are the text of some trees, as it is or with   *)
(* one token of the second declaration left out or written twice.          *)
(***************************************************************************)
EXTENDS Parser, Syntax

CONSTANTS Sources,     \* files without a mistake, as the trees of their declarations
          Broken       \* files of three declarations with one, where the first and the last are right

VARIABLES source,      \* the file that is parsed
          slip,
          mistake      \* "none", or that the token of the second declaration at `slip` is "missing" or "twice"

vars == <<parseVars, source, slip, mistake>>

Without(seq, k) == SubSeq(seq, 1, k - 1) \o SubSeq(seq, k + 1, Len(seq))
Doubled(seq, k) == SubSeq(seq, 1, k) \o SubSeq(seq, k, Len(seq))
Before == TopLines(<<source[1]>>)
Second == TopLines(<<source[2]>>)
TextOf == CASE mistake = "none"    -> TopLines(source)
            [] mistake = "missing" -> Before \o Without(Second, slip) \o TopLines(<<source[3]>>)
            [] mistake = "twice"   -> Before \o Doubled(Second, slip) \o TopLines(<<source[3]>>)

Init == /\ \/ source \in Sources /\ mistake = "none" /\ slip = 0
           \/ source \in Broken /\ mistake \in {"missing", "twice"} /\ slip \in {m \in DOMAIN Second : Second[m] \notin Marks}
        /\ ParserInit(Layout(TextOf))

Done == file \in {"parsed", "failed"} /\ UNCHANGED vars
Next == (ParserNext /\ UNCHANGED <<source, slip, mistake>>) \/ Done
Spec == Init /\ [][Next]_vars
-----------------------------------------------------------------------------
\* A file that is right has the trees it is the text of: no construct is read as another,
\* nothing is skipped, and an #if is the statements of the branch for the target
ReadsBack == file = "parsed" /\ mistake = "none" => /\ statements = Meaning(source, target)
                                              /\ parser.skips = <<>> /\ parser.unclosed = {} /\ ~parser.badIf

\* The index of the last token of the second declaration
lastOfSecond == Len(Layout(Before)) + Len(Layout(Second)) - 1
failedWithin == slip < Len(Second) /\ \A j \in DOMAIN parser.skips : parser.skips[j].failed < lastOfSecond

\* The body of a function
bodyOf(decl) == decl.c[3].c[1].c[4].c

\* The mistake is in the second of three statements of a body
withinStatement ==
    /\ isConstantFunction(source[2]) /\ Len(bodyOf(source[2])) = 3
    /\ LET before == Len(Text(source[2])) - Len(Lines(Tail(bodyOf(source[2])), <<"NL">>)) IN
       slip \in (before + 1)..(before + Len(Statement(bodyOf(source[2])[2])))

\* A mistake that is found before the last token of its declaration does not hide the declarations
\* around it; and one in a body that is not about a brace takes only its statement with it
\* (skip_failed_statement of parser.c)
MistakeContained ==
    file = "parsed" /\ mistake # "none"
        => /\ failedWithin => statements # <<>> /\ statements[1] = source[1] /\ Last(statements) = source[3]
           /\ withinStatement /\ Second[slip] \notin {"{", "}"}
                => /\ Len(statements) = 3 /\ isConstantFunction(statements[2])
                   /\ LET b == bodyOf(statements[2]) IN b # <<>> /\ b[1] = bodyOf(source[2])[1] /\ Last(b) = bodyOf(source[2])[3]

\* "so one mistake doesn't hide the rest of the file" (src/parser.c:196), wherever it is found
MistakeHidesNothing == file = "parsed" /\ mistake # "none" => statements # <<>> /\ Last(statements) = source[3]

\* The names of a declaration that failed are not reported as undeclared where they are used
DeclaredOrPoisoned ==
    file = "parsed" /\ mistake # "none" /\ failedWithin /\ source[2].k = "declare" /\ slip > 2 * Len(source[2].c[1].c) + 1
        => \A j \in DOMAIN source[2].c[1].c : source[2].c[1].c[j].v \in parser.scopes[1].names \cup parser.poisoned

\* Between two declarations the parser is as it was before the first
CleanBetween == /\ ~parser.header /\ ~parser.params /\ ~parser.args /\ ~parser.extern
              /\ parser.fns = <<>> /\ Len(parser.scopes) = 1 /\ parser.split = 0
=============================================================================
