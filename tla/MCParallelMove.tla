--------------------------- MODULE MCParallelMove ---------------------------
(***************************************************************************)
(* Calls with four or five arguments from a few places, and functions with *)
(* five parameters, allocated as the linear scan does at their start.      *)
(***************************************************************************)
EXTENDS CallMoves

MCGprs == {"rcx", "rdx", "r8", "r9", "rbx", "rsi", "r11"}
MCXmms == {"xmm0", "xmm1", "xmm2", "xmm3", "xmm6", "xmm15"}
MCMemory == {"out5", "in5", "spill1", "spill2", "spill3", "spill4", "spill5"}
MCGprArgs == <<"rcx", "rdx", "r8", "r9">>
MCFloatArgs == <<"xmm0", "xmm1", "xmm2", "xmm3">>
MCOutgoing(n) == "out5"
MCIncoming(n) == "in5"

\* rcx and rdx are not allocatable, so an argument is never in one
Ints(places)   == [src : places, is_float : {FALSE}, is_vararg : {FALSE}]
Floats(places) == [src : places, is_float : {TRUE}, is_vararg : BOOLEAN]

Calls == [1..4 -> Ints({"r8", "r9", "spill1"}) \cup Floats({"xmm0", "xmm1", "xmm2", "xmm3"})]
         \cup [1..5 -> Ints({"r9", "spill1", "7"}) \cup Floats({"xmm1"})]

CallLists == {callMoves(args) : args \in Calls}

\* A parameter gets a register at position 0, the first in the order of
\* preference that no parameter before it got, and may lose it to a spill slot
\* later. One that lives across a call gets a callee-saved register.
Preference(is_float) == IF is_float THEN <<"xmm0", "xmm1", "xmm2", "xmm3", "xmm6">>
                                    ELSE <<"r8", "r9", "rbx", "rsi">>
MayUse(p, r) == p.crosses_call => r \in CalleeSaved

Params == [unused : {TRUE}, got : {"none"}, is_float : {FALSE}, crosses_call : {FALSE}, spilled : {FALSE}]
          \cup [unused : {FALSE}, got : {"r8", "r9", "rbx", "rsi"}, is_float : {FALSE},
                crosses_call : BOOLEAN, spilled : BOOLEAN]
          \cup [unused : {FALSE}, got : {"xmm0", "xmm1", "xmm2", "xmm6"}, is_float : {TRUE},
                crosses_call : {FALSE}, spilled : BOOLEAN]

GotFirstFree(ps, n) ==
    ps[n].unused \/ \E k \in 1..Len(Preference(ps[n].is_float)) :
        LET order == Preference(ps[n].is_float)
            taken == {ps[m].got : m \in 1..(n-1)}
        IN  /\ ps[n].got = order[k] /\ order[k] \notin taken /\ MayUse(ps[n], order[k])
            /\ \A j \in 1..(k-1) : order[j] \in taken \/ ~MayUse(ps[n], order[j])

SpillSlots == <<"spill1", "spill2", "spill3", "spill4", "spill5">>

\* Sequences of n parameters, each allocated after the ones before it
Allocated[n \in 0..5] ==
    IF n = 0 THEN {<<>>}
    ELSE {ps \in {Append(qs, p) : qs \in Allocated[n-1], p \in Params} : GotFirstFree(ps, n)}

PrologueLists == {paramMoves([n \in 1..5 |-> [unused   |-> ps[n].unused, is_float |-> ps[n].is_float,
                                              location |-> IF ps[n].spilled THEN SpillSlots[n] ELSE ps[n].got]]) :
                    ps \in Allocated[5]}

MCMoveLists == CallLists \cup PrologueLists
=============================================================================
