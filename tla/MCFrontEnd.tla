---------------------------- MODULE MCFrontEnd ----------------------------
(***************************************************************************)
(* The front end: the lexer on texts, and the parser on the tokens of      *)
(* files. They share no state, so a behaviour has a step of one of them.   *)
(***************************************************************************)
EXTENDS Lexer, MCParser

CONSTANT MaxPieces

\* Texts are put together of pieces that change what follows them
Pieces == {<<"0", "x">>, <<"0", "b">>, <<"1">>, <<"f">>, <<"_">>, <<".">>, <<" ">>, <<"\n">>, <<"/">>, <<"'">>,
           <<"\\">>, <<"\"">>, <<"i", "f">>, <<"t", "r", "u", "e">>, <<":">>, <<"=">>, <<"<", "<">>, <<"wide">>, <<"$">>, <<"x">>}
MCTexts == UNION {{FlattenSeq(ps) : ps \in [1..n -> Pieces]} : n \in 0..MaxPieces}

MCLetters == {"i", "f", "t", "r", "u", "e", "x", "b"}
MCDigits == <<"0", "1">>
MCHexLetters == <<"a", "b", "c", "d", "e", "f">>
MCRadix == [x |-> 16, b |-> 2, o |-> 8]
MCKeywords == <<"i", "f">> :> "if" @@ <<"t", "r", "u", "e">> :> "true"
MCOperators == <<"<">> :> "<" @@ <<"=">> :> "=" @@ <<":">> :> ":" @@ <<".">> :> "." @@ <<"/">> :> "/"
               @@ <<"<", "<">> :> "<<" @@ <<"<", "<", "=">> :> "<<=" @@ <<"=", "=">> :> "==" @@ <<"<", "=">> :> "<="
               @@ <<":", ":">> :> "::" @@ <<":", "=">> :> ":=" @@ <<".", ".">> :> ".." @@ <<".", ".", ".">> :> "..."
               @@ <<"/", "=">> :> "/="
MCWideBytes == [wide |-> 2]
MCEscapes == {"t", "r", "'", "\"", "\\", "0"}

\* Either part works, and the other one has nothing to do
NoText == text = <<>> /\ here = [idx |-> 0, line |-> 1, col |-> 1] /\ tokens = <<>> /\ had_errors = FALSE /\ lexing = FALSE
NoSource == source = <<>> /\ mistake = "none" /\ slip = 0 /\ toks = <<>> /\ parser = parser_init /\ statements = <<>> /\ file = "none"
FrontInit == (Init /\ NoText) \/ (lexer_init /\ NoSource)

fileVars == <<toks, parser, statements, file, source, slip, mistake>>
allVars == <<fileVars, lexVars>>
Stopped == ~lexing /\ file \in {"none", "parsed", "failed"} /\ UNCHANGED allVars
FrontNext == (LexStep /\ UNCHANGED fileVars) \/ (ParserNext /\ UNCHANGED <<lexVars, source, slip, mistake>>) \/ Stopped
FrontSpec == FrontInit /\ [][FrontNext]_allVars

\* The front end ends for every text: a round of lex_file always moves on or is the last, and
\* every statement of the file takes tokens, also when it fails
MovesOn == [][/\ RoundMovesOn
              /\ file = "open" /\ file' = "open" => parser'.i > parser.i]_allVars
=============================================================================
