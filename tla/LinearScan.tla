----------------------------- MODULE LinearScan -----------------------------
(***************************************************************************)
(* The linear scan of regalloc_function (src/regalloc.c): goes through the *)
(* intervals by their start and gives each vreg a register or a spill      *)
(* slot. One action is one round of the scan. Which of the active          *)
(* intervals that end last is evicted is left open.                        *)
(***************************************************************************)
EXTENDS AllocState

CONSTANTS Regs, NoReg,
          allocatable,    \* TargetDesc.allocatable: registers of a class, by preference
          CalleeSaved     \* TargetDesc.is_callee_saved

ASSUME TargetAssumption == /\ NoReg \notin Regs
                           /\ allocatable \in [RegClasses -> Seq(Regs)]
                           /\ CalleeSaved \subseteq Regs

VARIABLES intervals, locations, spill_slot_count, used_callee_saved,
          todo,           \* order[k..]: the vregs whose interval is still to come
          active,         \* vregs currently holding a register
          reg_free

scanVars == <<intervals, locations, spill_slot_count, used_callee_saved, todo, active, reg_free>>

Locations == [kind : {"none", "reg", "spill"}, reg : Regs \cup {NoReg}, slot : Int]
Intervals == [start : Int, end : Int, reg_class : RegClasses, crosses_call : BOOLEAN]

none == [kind |-> "none", reg |-> NoReg, slot |-> -1]
inReg(r) == [kind |-> "reg", reg |-> r, slot |-> -1]
spilled(n) == [kind |-> "spill", reg |-> NoReg, slot |-> n]

\* Vregs that are never used have start > end and get no location
toAllocate(ivs) == {v \in Vregs : ivs[v].start <= ivs[v].end}

nothingLocated == /\ locations = [v \in Vregs |-> none]
                  /\ spill_slot_count = 0 /\ used_callee_saved = {}
                  /\ active = {} /\ reg_free = Regs

ScanInit(inputs) == /\ phase = "scan"
                    /\ intervals \in inputs
                    /\ todo = toAllocate(intervals)
                    /\ nothingLocated
-----------------------------------------------------------------------------
start(v) == intervals[v].start
end(v) == intervals[v].end
class(v) == intervals[v].reg_class

\* compare_intervals_by_start
comesBefore(v, w) == start(v) < start(w) \/ (start(v) = start(w) /\ v <= w)
isNext(v) == v \in todo /\ \A w \in todo : comesBefore(v, w)

expiredOrEnding(v) == {a \in active : end(a) <= start(v)}

\* Intervals that ended strictly before v starts
expired(v) == {a \in active : end(a) < start(v)}
stillActive(v) == active \ expired(v)
freeFor(v) == reg_free \cup {locations[a].reg : a \in expired(v)}

mayUse(v, r) == intervals[v].crosses_call => r \in CalleeSaved

\* Places in the order of preference of registers that v can have
choices(v) == {i \in 1..Len(allocatable[class(v)]) :
                  allocatable[class(v)][i] \in freeFor(v) /\ mayUse(v, allocatable[class(v)][i])}

takeFree(v) == /\ phase = "scan" /\ isNext(v)
               /\ \E i \in choices(v) :
                     /\ \A j \in choices(v) : i <= j
                     /\ locations' = [locations EXCEPT ![v] = inReg(allocatable[class(v)][i])]
                     /\ reg_free' = freeFor(v) \ {allocatable[class(v)][i]}
               /\ active' = stillActive(v) \cup {v}
               /\ todo' = todo \ {v}
               /\ UNCHANGED <<phase, intervals, spill_slot_count, used_callee_saved>>

victimsAnyClass(v) == {a \in stillActive(v) : mayUse(v, locations[a].reg)}

victims(v) == {a \in stillActive(v) : class(a) = class(v) /\ mayUse(v, locations[a].reg)}

takeVictimSlotReused(v) ==
    /\ phase = "scan" /\ isNext(v) /\ choices(v) = {}
    /\ \E x \in victims(v) :
          /\ \A y \in victims(v) : end(y) <= end(x)
          /\ end(x) > end(v)
          /\ locations' = [locations EXCEPT ![v] = inReg(locations[x].reg),
                                            ![x] = spilled(spill_slot_count)]
          /\ active' = (stillActive(v) \ {x}) \cup {v}
    /\ reg_free' = freeFor(v)
    /\ todo' = todo \ {v}
    /\ UNCHANGED <<phase, intervals, spill_slot_count, used_callee_saved>>

\* Out of registers: takes that of the active interval that ends last, when it
\* ends after v. That one is spilled, from its start on
takeVictim(v) == /\ phase = "scan" /\ isNext(v) /\ choices(v) = {}
                 /\ \E x \in victims(v) :
                       /\ \A y \in victims(v) : end(y) <= end(x)
                       /\ end(x) > end(v)
                       /\ locations' = [locations EXCEPT ![v] = inReg(locations[x].reg),
                                                         ![x] = spilled(spill_slot_count)]
                       /\ active' = (stillActive(v) \ {x}) \cup {v}
                 /\ spill_slot_count' = spill_slot_count + 1
                 /\ reg_free' = freeFor(v)
                 /\ todo' = todo \ {v}
                 /\ UNCHANGED <<phase, intervals, used_callee_saved>>

spillSelf(v) == /\ phase = "scan" /\ isNext(v) /\ choices(v) = {}
                /\ \A y \in victims(v) : end(y) <= end(v)
                /\ locations' = [locations EXCEPT ![v] = spilled(spill_slot_count)]
                /\ spill_slot_count' = spill_slot_count + 1
                /\ active' = stillActive(v)
                /\ reg_free' = freeFor(v)
                /\ todo' = todo \ {v}
                /\ UNCHANGED <<phase, intervals, used_callee_saved>>

finish == /\ phase = "scan" /\ todo = {}
          /\ used_callee_saved' = {locations[v].reg : v \in {v \in Vregs : locations[v].kind = "reg"}}
                                     \cap CalleeSaved
          /\ phase' = "done"
          /\ UNCHANGED <<intervals, locations, spill_slot_count, todo, active, reg_free>>

Scan(v) == takeFree(v) \/ takeVictim(v) \/ spillSelf(v)
ScanStep == (\E v \in Vregs : Scan(v)) \/ finish

\* The scan alone, from any intervals
ScanSpec == ScanInit([Vregs -> Intervals]) /\ [][ScanStep]_<<phase, scanVars>>
-----------------------------------------------------------------------------
(* Properties *)

ScanTypeOK == /\ phase \in {"live", "rejected", "intervals", "scan", "done"}
              /\ intervals \in [Vregs -> Intervals]
              /\ locations \in [Vregs -> Locations]
              /\ spill_slot_count \in Nat
              /\ used_callee_saved \subseteq CalleeSaved
              /\ todo \subseteq Vregs /\ active \subseteq Vregs /\ reg_free \subseteq Regs

inRegs == {v \in Vregs : locations[v].kind = "reg"}
inSlots == {v \in Vregs : locations[v].kind = "spill"}

\* Two vregs share a register only when one interval is over strictly before
\* the other begins, whichever was evicted or expired in between.
NoSharedRegister ==
    \A v, w \in inRegs : v # w /\ locations[v].reg = locations[w].reg
                            => end(v) < start(w) \/ end(w) < start(v)

\* "Intervals that span a call may only use callee-saved registers", and a
\* vreg gets a register of its own class, also when it takes one from another.
RegisterFits ==
    \A v \in inRegs : /\ intervals[v].crosses_call => locations[v].reg \in CalleeSaved
                      /\ \E i \in 1..Len(allocatable[class(v)]) : allocatable[class(v)][i] = locations[v].reg

\* Spill slots are never reused: two spilled vregs have two slots, and the
\* frame (spill_slot_count slots) has room for every one.
SpillSlotsApart ==
    /\ \A v \in inSlots : locations[v].slot \in 0..(spill_slot_count - 1)
    /\ \A v, w \in inSlots : v # w => locations[v].slot # locations[w].slot
=============================================================================
