------------------------------- MODULE IfPass -------------------------------
(***************************************************************************)
(* #if (src/parser.c): before a file is parsed, the branches that do not   *)
(* hold for the target are taken out of its tokens. in is the tokens of    *)
(* the file, without its end; a pass is where it is, what it copied, and   *)
(* if it failed or met a bad condition.                                    *)
(***************************************************************************)
EXTENDS Integers, Sequences, SequencesExt

CONSTANTS target,       \* what OS and ARCH are: target_os and target_arch
          knownValues   \* what they can be

tok(in, i) == IF i <= Len(in) THEN in[i].t ELSE "END"

Settings == DOMAIN target
isWord(x) == x \in Settings \cup UNION {knownValues[n] : n \in Settings}

if_error(p) == [p EXCEPT !.failed = TRUE, !.bad = TRUE, !.value = FALSE]

RECURSIVE if_condition_or(_, _), if_condition_primary(_, _), andRest(_, _), orRest(_, _)

\* OS == .windows, where all four tokens are looked at before one is taken
comparison(in, p) ==
    LET name == tok(in, p.i) IN
    IF \/ name \notin Settings
       \/ tok(in, p.i + 1) \notin {"==", "!="} \/ tok(in, p.i + 2) # "." \/ ~isWord(tok(in, p.i + 3))
       \/ tok(in, p.i + 3) \notin knownValues[name]
    THEN if_error(p)
    ELSE [p EXCEPT !.i = @ + 4,
                   !.value = (tok(in, p.i + 3) = target[name]) <=> (tok(in, p.i + 1) = "==")]

if_condition_primary(in, p) ==
    LET x == tok(in, p.i) IN
    CASE x = "!" -> LET q == if_condition_primary(in, [p EXCEPT !.i = @ + 1]) IN [q EXCEPT !.value = ~@]
      [] x = "(" -> LET q == if_condition_or(in, [p EXCEPT !.i = @ + 1])
                    IN  IF tok(in, q.i) # ")" THEN if_error(q) ELSE [q EXCEPT !.i = @ + 1]
      [] x \in {"true", "false"} -> [p EXCEPT !.i = @ + 1, !.value = (x = "true")]
      [] isWord(x) -> comparison(in, p)
      [] OTHER -> if_error(p)

\* Both sides are read, also when the first decides
andRest(in, p) ==
    IF p.bad \/ tok(in, p.i) # "&&" THEN p
    ELSE LET right == if_condition_primary(in, [p EXCEPT !.i = @ + 1])
         IN  andRest(in, [right EXCEPT !.value = p.value /\ @])
if_condition_and(in, p) == andRest(in, if_condition_primary(in, p))

orRest(in, p) ==
    IF p.bad \/ tok(in, p.i) # "||" THEN p
    ELSE LET right == if_condition_and(in, [p EXCEPT !.i = @ + 1])
         IN  orRest(in, [right EXCEPT !.value = p.value \/ @])
if_condition_or(in, p) == orRest(in, if_condition_and(in, p))

\* The '}' that closes the '{' at i, or 0
if_matching_brace(in, i) ==
    LET depth[k \in (i-1)..Len(in)] ==
            IF k = i - 1 THEN 0
            ELSE depth[k-1] + (IF in[k].t = "{" THEN 1 ELSE IF in[k].t = "}" THEN -1 ELSE 0)
        closing == {k \in i..Len(in) : in[k].t = "}" /\ depth[k] = 0}
    IN  IF closing = {} THEN 0 ELSE CHOOSE k \in closing : \A j \in closing : k <= j

RECURSIVE if_directive(_, _, _), if_tokens(_, _, _, _)

if_tokens(in, p, end, keep) ==
    IF p.i >= end THEN p
    ELSE IF in[p.i].t = "#" /\ p.i + 1 < end /\ in[p.i + 1].t = "if"
    THEN if_tokens(in, if_directive(in, p, keep), end, keep)
    ELSE if_tokens(in, [p EXCEPT !.i = @ + 1, !.out = IF keep THEN Append(@, in[p.i]) ELSE @], end, keep)

\* The else of an #if whose '}' was before p.i
if_else(in, p, keep) ==
    IF tok(in, p.i) # "else" THEN p
    ELSE IF tok(in, p.i + 1) = "#" /\ tok(in, p.i + 2) = "if"
    THEN if_directive(in, [p EXCEPT !.i = @ + 1], keep)
    ELSE IF tok(in, p.i + 1) # "{" THEN [if_error(p) EXCEPT !.i = p.i + 1]
    ELSE LET close == if_matching_brace(in, p.i + 1)
         IN  IF close = 0 THEN [if_error(p) EXCEPT !.i = Len(in) + 1]
             ELSE [if_tokens(in, [p EXCEPT !.i = @ + 2], close, keep) EXCEPT !.i = close + 1]

\* A bad condition is false, and its branch starts at the next '{'
afterBad(in, i) == CHOOSE k \in i..(Len(in) + 1) :
                      /\ k > Len(in) \/ in[k].t \in {"{", ";", "}"}
                      /\ \A j \in i..(k-1) : in[j].t \notin {"{", ";", "}"}

if_directive(in, p, keep) ==
    LET q     == if_condition_or(in, [p EXCEPT !.i = @ + 2, !.bad = FALSE])
        i     == IF q.bad THEN afterBad(in, q.i) ELSE q.i
        holds == ~q.bad /\ q.value
        close == if_matching_brace(in, i)
    IN  IF tok(in, i) # "{" THEN [if_error(q) EXCEPT !.i = i]
        ELSE IF close = 0 THEN [if_error(q) EXCEPT !.i = Len(in) + 1]
        ELSE if_else(in, [if_tokens(in, [q EXCEPT !.i = i + 1], close, keep /\ holds) EXCEPT !.i = close + 1],
                     keep /\ ~holds)

hasIf(in) == \E i \in 1..(Len(in)-1) : in[i].t = "#" /\ in[i + 1].t = "if"

apply_compile_time_ifs(in) ==
    LET p == if_tokens(in, [i |-> 1, out |-> <<>>, failed |-> FALSE, bad |-> FALSE, value |-> FALSE], Len(in) + 1, TRUE)
    IN  IF hasIf(in) THEN [out |-> p.out, failed |-> p.failed] ELSE [out |-> in, failed |-> FALSE]
=============================================================================
