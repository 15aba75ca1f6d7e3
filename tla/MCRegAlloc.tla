----------------------------- MODULE MCRegAlloc -----------------------------
(***************************************************************************)
(* RegAlloc on all functions of a small shape, as ir_lower.c makes them:   *)
(* it numbers vregs and places blocks in the order it emits them, so an    *)
(* instruction writes the next vreg or none, what it reads is written      *)
(* before it in the layout, and nothing jumps to the first block. And the  *)
(* linear scan from all intervals between a few positions, which also the  *)
(* longest of these functions don't make.                                  *)
(***************************************************************************)
EXTENDS RegAlloc, FiniteSets

CONSTANTS BlockCount, InstCount,  \* bounds: blocks, and instructions in each; 1 or 3
          ParamCount,
          LastVreg, LastPosition, \* bounds of the intervals
          CallPosition,           \* where the function they are of calls
          FloatChoices            \* sets of vregs that are floats in them

MCVregs == 0..LastVreg
MCNoVreg == -1
MCAllocatable == [gpr |-> <<"r8", "rbx">>, fpr |-> <<"xmm0">>]

\* The vreg that instruction i of block k writes if it writes one
own(k, i) == ParamCount + (k - 1) * InstCount + i - 1
\* At most one operand: more only make the intervals longer
oneOf(n) == {{}} \cup {{v} : v \in 0..(n - 1)}

InstsAt(k, i) == [use : oneOf(own(k, i)), dst : {own(k, i), NoVreg}, call : BOOLEAN]

\* A branch has a condition and two targets, a jump has one, a return may have
\* a value
TermsAt(k) == {t \in [use : oneOf(own(k + 1, 1)), succ : SUBSET (2..BlockCount)] :
                  /\ Cardinality(t.succ) <= 2
                  /\ Cardinality(t.succ) = 2 => t.use # {}
                  /\ Cardinality(t.succ) = 1 => t.use = {}}

\* Sequences of one or three elements, the n-th from S(n)
products(n, S(_)) == IF n = 1 THEN {<<x>> : x \in S(1)}
                              ELSE {<<x, y, z>> : x \in S(1), y \in S(2), z \in S(3)}

BodiesAt(k) == products(InstCount, LAMBDA i : InstsAt(k, i))
BlocksAt(k) == {[insts |-> body, use |-> t.use, succ |-> t.succ] : body \in BodiesAt(k), t \in TermsAt(k)}

\* ir_function_finalize dropped the blocks that can't be reached
Layouts == {bs \in products(BlockCount, BlocksAt) :
              \A k \in 2..BlockCount : \E j \in 1..(k - 1) : k \in bs[j].succ}

SmallFunctions == {[blocks    |-> bs,
                    params    |-> 0..(ParamCount - 1),
                    reg_class |-> [v \in Vregs |-> "gpr"]] : bs \in Layouts}
-----------------------------------------------------------------------------
Spans == {s \in [from : 0..LastPosition, to : 0..LastPosition] : s.from <= s.to}

SmallIntervals ==
    {[v \in Vregs |-> [start |-> s[v].from, end |-> s[v].to,
                       reg_class |-> IF v \in F THEN "fpr" ELSE "gpr",
                       crosses_call |-> s[v].from < CallPosition /\ CallPosition < s[v].to]] :
        s \in [Vregs -> Spans], F \in FloatChoices}

\* The scan alone looks at no function
noFunction == /\ func = [blocks |-> <<[insts |-> <<>>, use |-> {}, succ |-> {}]>>, params |-> {},
                         reg_class |-> [v \in Vregs |-> "gpr"]]
              /\ live_in = <<{}>> /\ live_out = <<{}>> /\ changed = FALSE /\ b = 0

SmallInit == Init \/ (ScanInit(SmallIntervals) /\ noFunction)
SmallSpec == SmallInit /\ [][Next]_vars /\ WF_vars(Next)
=============================================================================
