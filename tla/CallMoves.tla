------------------------------ MODULE CallMoves -----------------------------
(***************************************************************************)
(* The moves of a call, x64_emit_call_with_args, and of the prologue of a  *)
(* function, in x64_emit_function (src/x64_emit.c), performed by           *)
(* x64_parallel_move.                                                      *)
(***************************************************************************)
EXTENDS ParallelMove, SequencesExt

CONSTANTS gpr_arg_regs,     \* x64_gpr_arg_regs
          float_arg_regs,   \* XMM0 + i
          outgoing(_),      \* [rsp + 8*i]
          incoming(_),      \* [rbp + 16 + 8*i]
          CalleeSaved       \* is_callee_saved of x64_target

\* "Win64: floats passed through '...' are also passed in the matching integer
\* register"
argMoves(a, n) ==
    IF n > Len(gpr_arg_regs) THEN <<[dst |-> outgoing(n), src |-> a.src]>>
    ELSE IF ~a.is_float THEN <<[dst |-> gpr_arg_regs[n], src |-> a.src]>>
    ELSE IF ~a.is_vararg THEN <<[dst |-> float_arg_regs[n], src |-> a.src]>>
    ELSE <<[dst |-> float_arg_regs[n], src |-> a.src], [dst |-> gpr_arg_regs[n], src |-> a.src]>>

callMoves(args) == FlattenSeq([n \in 1..Len(args) |-> argMoves(args[n], n)])

paramSource(p, n) == IF n > Len(gpr_arg_regs) THEN incoming(n)
                     ELSE IF p.is_float THEN float_arg_regs[n] ELSE gpr_arg_regs[n]

\* Parameters that are never used have no location and are not moved
paramMoves(params) ==
    FlattenSeq([n \in 1..Len(params) |->
                   IF params[n].unused THEN <<>>
                   ELSE <<[dst |-> params[n].location, src |-> paramSource(params[n], n)]>>])
-----------------------------------------------------------------------------
(* Properties *)

\* "Every function has the Win64 calling convention, like the x64 backend"
\* (docs/backend.md), where the callee saves xmm6 to xmm15: a callee-saved
\* register is changed only if it was allocated, as only those are saved.
CalleeSavedKept ==
    phase = "over" =>
        \A r \in CalleeSaved : (\A k \in 1..count : dst(k) # r) => holds[r] = r
=============================================================================
