--------------------------- MODULE RegAllocProofs ---------------------------
(***************************************************************************)
(* Proofs about the register allocator, for every function and every       *)
(* target: the linear scan keeps values apart, the liveness sweeps end     *)
(* with a solution of the dataflow equations, which is exactly what is     *)
(* live on some path, and no value is overwritten while it is still        *)
(* needed.                                                                 *)
(***************************************************************************)
EXTENDS RegAlloc, Extremes, FiniteSetTheorems, TLAPS

(* The scan *)

reg(v) == locations[v].reg

\* The active vregs are the ones whose register is taken, each its own
ActiveHold == /\ \A a \in active : a \in inRegs /\ reg(a) \in Regs /\ reg(a) \notin reg_free
              /\ \A a, c \in active : a # c => reg(a) # reg(c)

\* A vreg that left its register is over before all that are still to come
OverIsOver == \A v \in inRegs \ active : \A w \in todo : end(v) < start(w)

TodoIsNone == \A v \in todo : locations[v].kind = "none"

ScanInv == /\ ScanTypeOK
           /\ ActiveHold /\ OverIsOver /\ TodoIsNone
           /\ NoSharedRegister /\ RegisterFits /\ SpillSlotsApart

\* What a round does before it gives v a place: it expires intervals, and the
\* registers that are taken are those of the ones that stay active.
LEMMA AfterExpiring ==
  ASSUME ScanInv, NEW v \in Vregs, isNext(v)
  PROVE  /\ v \in todo /\ v \notin active /\ locations[v].kind = "none"
         /\ stillActive(v) \subseteq active
         /\ freeFor(v) \subseteq Regs
         /\ \A a \in stillActive(v) : reg(a) \notin freeFor(v)
         /\ \A u \in inRegs \ stillActive(v) : end(u) < start(v)
         /\ \A w \in todo : start(v) <= start(w)
<1> USE DEF ScanInv, ScanTypeOK
<1>1. v \in todo /\ locations[v].kind = "none" /\ \A w \in todo : start(v) <= start(w)
  BY DEF isNext, comesBefore, TodoIsNone, start, Intervals
<1>2. v \notin active
  BY <1>1 DEF ActiveHold, inRegs
<1>3. stillActive(v) \subseteq active /\ expired(v) \subseteq active
  BY DEF stillActive, expired
<1>4. freeFor(v) \subseteq Regs
  BY <1>3 DEF freeFor, ActiveHold, reg
<1>5. \A a \in stillActive(v) : reg(a) \notin freeFor(v)
  BY <1>3 DEF freeFor, ActiveHold, reg, stillActive
<1>6. \A u \in inRegs \ stillActive(v) : end(u) < start(v)
  BY <1>1 DEF OverIsOver, stillActive, expired
<1> QED BY <1>1, <1>2, <1>3, <1>4, <1>5, <1>6

\* v got a register r that no vreg that stays active has, and perhaps one vreg
\* x lost its own: the registers are apart again.
LEMMA RegisterGiven ==
  ASSUME ScanInv, NEW v \in Vregs, isNext(v), NEW r \in Regs, NEW A,
         A \subseteq stillActive(v), v \notin A,
         intervals' = intervals, todo' = todo \ {v}, active' = A \cup {v},
         locations' \in [Vregs -> Locations],
         locations'[v] = inReg(r),
         \A u \in Vregs : \/ u = v \/ locations'[u] = locations[u]
                          \/ u \in active /\ locations'[u].kind = "spill",
         \A u \in A : locations'[u] = locations[u] /\ reg(u) # r /\ reg(u) \notin reg_free',
         \A u \in Vregs \ {v} : u \in inRegs' => u \in A \/ end(u) < start(v),
         r \notin reg_free'
  PROVE  ActiveHold' /\ OverIsOver' /\ NoSharedRegister' /\ TodoIsNone'
<1> USE DEF ScanInv, ScanTypeOK
<1>0. /\ v \in todo /\ \A w \in todo : start(v) <= start(w)
      /\ A \subseteq active
  BY AfterExpiring
<1>1. \A u \in Vregs : start(u)' = start(u) /\ end(u)' = end(u) /\ start(u) \in Int /\ end(u) \in Int
  BY DEF start, end, Intervals
<1>2. v \in inRegs' /\ reg(v)' = r
  BY DEF inRegs, inReg, reg
<1>3. \A u \in inRegs' : u # v => u \in inRegs /\ reg(u)' = reg(u)
  BY DEF inRegs, reg
<1>4. ActiveHold'
  BY <1>0, <1>2, <1>3 DEF ActiveHold, inRegs, reg
<1>5. OverIsOver'
  BY <1>0, <1>1 DEF OverIsOver, inRegs
<1>6. NoSharedRegister'
  <2> SUFFICES ASSUME NEW u \in inRegs', NEW w \in inRegs', u # w, reg(u)' = reg(w)'
               PROVE end(u)' < start(w)' \/ end(w)' < start(u)'
    BY DEF NoSharedRegister, reg
  <2>1. CASE u # v /\ w # v
    BY <2>1, <1>1, <1>3 DEF NoSharedRegister, inRegs, reg
  <2>2. CASE u = v
    BY <2>2, <1>1, <1>2, <1>3 DEF inRegs
  <2>3. CASE w = v
    BY <2>3, <1>1, <1>2, <1>3 DEF inRegs
  <2> QED BY <2>1, <2>2, <2>3
<1>7. TodoIsNone'
  <2> SUFFICES ASSUME NEW u \in todo, u # v PROVE locations'[u].kind = "none"
    BY DEF TodoIsNone
  <2> QED BY DEF TodoIsNone, ActiveHold, inRegs
<1> QED BY <1>4, <1>5, <1>6, <1>7

\* The first free register of the preferences
LEMMA TakeFreeKeeps ==
  ASSUME ScanInv, NEW v \in Vregs, takeFree(v)
  PROVE  ScanInv'
<1> USE DEF ScanTypeOK
<1>0. isNext(v) /\ intervals' = intervals /\ todo' = todo \ {v} /\ active' = stillActive(v) \cup {v}
      /\ spill_slot_count' = spill_slot_count /\ phase' = phase /\ used_callee_saved' = used_callee_saved
  BY DEF takeFree
<1>1. PICK i \in choices(v) :
         /\ locations' = [locations EXCEPT ![v] = inReg(allocatable[class(v)][i])]
         /\ reg_free' = freeFor(v) \ {allocatable[class(v)][i]}
  BY DEF takeFree
<1> DEFINE r == allocatable[class(v)][i]
<1>2. class(v) \in RegClasses /\ i \in 1..Len(allocatable[class(v)]) /\ r \in freeFor(v) /\ mayUse(v, r)
  BY DEF choices, class, ScanInv, Intervals
<1>3. /\ v \in todo /\ v \notin stillActive(v) /\ locations[v].kind = "none" /\ r \in Regs
      /\ stillActive(v) \subseteq active
      /\ \A a \in stillActive(v) : reg(a) \notin freeFor(v)
      /\ \A u \in inRegs \ stillActive(v) : end(u) < start(v)
      /\ freeFor(v) \subseteq Regs
  BY <1>0, <1>2, AfterExpiring
<1>4. /\ locations' \in [Vregs -> Locations] /\ locations'[v] = inReg(r)
      /\ \A u \in Vregs : u # v => locations'[u] = locations[u]
  BY <1>1, <1>3 DEF ScanInv, Locations, inReg
<1> HIDE DEF r
<1>5. ActiveHold' /\ OverIsOver' /\ NoSharedRegister' /\ TodoIsNone'
  <2>1. \A u \in stillActive(v) : locations'[u] = locations[u] /\ reg(u) # r /\ reg(u) \notin reg_free'
    BY <1>1, <1>2, <1>3, <1>4 DEF ScanInv, r
  <2>2. \A u \in Vregs \ {v} : u \in inRegs' => u \in stillActive(v) \/ end(u) < start(v)
    BY <1>3, <1>4 DEF inRegs
  <2>3. r \notin reg_free'
    BY <1>1 DEF r
  <2> QED BY <1>0, <1>3, <1>4, <2>1, <2>2, <2>3, RegisterGiven
<1>6. RegisterFits'
  <2>1. \A u \in inRegs' : u # v => u \in inRegs /\ locations'[u] = locations[u]
    BY <1>4 DEF inRegs
  <2>2. /\ intervals[v].crosses_call => locations'[v].reg \in CalleeSaved
        /\ \E j \in 1..Len(allocatable[class(v)]) : allocatable[class(v)][j] = locations'[v].reg
    BY <1>2, <1>4 DEF mayUse, inReg, r
  <2> QED BY <1>0, <2>1, <2>2 DEF RegisterFits, ScanInv, class, inRegs
<1>7. SpillSlotsApart'
  <2>1. inSlots' \subseteq inSlots /\ \A u \in inSlots' : locations'[u] = locations[u]
    BY <1>4 DEF inSlots, inReg
  <2> QED BY <1>0, <2>1 DEF SpillSlotsApart, ScanInv
<1>8. ScanTypeOK'
  BY <1>0, <1>1, <1>3, <1>4 DEF ScanInv
<1> QED BY <1>5, <1>6, <1>7, <1>8 DEF ScanInv

\* A register that ends last is taken over, and its vreg gets a new slot
LEMMA TakeVictimKeeps ==
  ASSUME ScanInv, NEW v \in Vregs, takeVictim(v)
  PROVE  ScanInv'
<1> USE DEF ScanTypeOK
<1>0. isNext(v) /\ intervals' = intervals /\ todo' = todo \ {v} /\ reg_free' = freeFor(v)
      /\ spill_slot_count' = spill_slot_count + 1 /\ phase' = phase
      /\ used_callee_saved' = used_callee_saved
  BY DEF takeVictim
<1>1. PICK x \in victims(v) :
         /\ locations' = [locations EXCEPT ![v] = inReg(locations[x].reg),
                                           ![x] = spilled(spill_slot_count)]
         /\ active' = (stillActive(v) \ {x}) \cup {v}
  BY DEF takeVictim
<1> DEFINE r == locations[x].reg
           A == stillActive(v) \ {x}
<1>2. /\ v \in todo /\ v \notin active /\ locations[v].kind = "none"
      /\ stillActive(v) \subseteq active
      /\ \A a \in stillActive(v) : reg(a) \notin freeFor(v)
      /\ \A u \in inRegs \ stillActive(v) : end(u) < start(v)
      /\ freeFor(v) \subseteq Regs
  BY <1>0, AfterExpiring
<1>3. /\ x \in stillActive(v) /\ x \in active /\ x # v /\ x \in Vregs /\ x \in inRegs
      /\ class(x) = class(v) /\ mayUse(v, r) /\ r \in Regs
  BY <1>2 DEF victims, ScanInv, ActiveHold, reg
<1>4. /\ locations' \in [Vregs -> Locations] /\ locations'[v] = inReg(r)
      /\ locations'[x] = spilled(spill_slot_count)
      /\ \A u \in Vregs : u # v /\ u # x => locations'[u] = locations[u]
  <2>1. inReg(r) \in Locations /\ spilled(spill_slot_count) \in Locations
    BY <1>3 DEF ScanInv, Locations, inReg, spilled
  <2> QED BY <1>1, <1>3, <2>1 DEF ScanInv
<1> HIDE DEF r
<1>5. ActiveHold' /\ OverIsOver' /\ NoSharedRegister' /\ TodoIsNone'
  <2>1. \A u \in A : locations'[u] = locations[u] /\ reg(u) # r /\ reg(u) \notin reg_free'
    BY <1>0, <1>2, <1>3, <1>4 DEF ScanInv, ActiveHold, r, reg
  <2>2. \A u \in Vregs \ {v} : u \in inRegs' => u \in A \/ end(u) < start(v)
    BY <1>2, <1>4 DEF inRegs, spilled
  <2>3. r \notin reg_free'
    BY <1>0, <1>2, <1>3 DEF r, reg
  <2>4. \A u \in Vregs : \/ u = v \/ locations'[u] = locations[u]
                         \/ u \in active /\ locations'[u].kind = "spill"
    BY <1>3, <1>4 DEF spilled
  <2>5. A \subseteq stillActive(v) /\ v \notin A /\ active' = A \cup {v}
    BY <1>1, <1>2
  <2> HIDE DEF A
  <2> QED BY <1>0, <1>3, <1>4, <2>1, <2>2, <2>3, <2>4, <2>5, RegisterGiven
<1>6. RegisterFits'
  <2>1. \A u \in inRegs' : u # v => u \in inRegs /\ locations'[u] = locations[u]
    BY <1>4 DEF inRegs, spilled
  <2>2. /\ intervals[v].crosses_call => locations'[v].reg \in CalleeSaved
        /\ \E j \in 1..Len(allocatable[class(v)]) : allocatable[class(v)][j] = locations'[v].reg
    BY <1>3, <1>4 DEF mayUse, inReg, r, RegisterFits, ScanInv
  <2> QED BY <1>0, <2>1, <2>2 DEF RegisterFits, ScanInv, class, inRegs
<1>7. SpillSlotsApart'
  <2>1. spill_slot_count \in Nat
    BY DEF ScanInv
  <2>2. \A u \in inSlots' : \/ u = x /\ locations'[u].slot = spill_slot_count
                            \/ u \in inSlots /\ locations'[u] = locations[u]
    BY <1>4 DEF inSlots, inReg, spilled
  <2>3. \A u \in inSlots : locations[u].slot \in 0..(spill_slot_count - 1)
    BY DEF ScanInv, SpillSlotsApart
  <2> QED BY <1>0, <2>1, <2>2, <2>3 DEF SpillSlotsApart, ScanInv
<1>8. ScanTypeOK'
  BY <1>0, <1>1, <1>2, <1>3, <1>4 DEF ScanInv
<1> QED BY <1>5, <1>6, <1>7, <1>8 DEF ScanInv

LEMMA SpillSelfKeeps ==
  ASSUME ScanInv, NEW v \in Vregs, spillSelf(v)
  PROVE  ScanInv'
<1> USE DEF ScanTypeOK
<1>0. isNext(v) /\ intervals' = intervals /\ todo' = todo \ {v} /\ reg_free' = freeFor(v)
      /\ spill_slot_count' = spill_slot_count + 1 /\ phase' = phase
      /\ used_callee_saved' = used_callee_saved /\ active' = stillActive(v)
      /\ locations' = [locations EXCEPT ![v] = spilled(spill_slot_count)]
  BY DEF spillSelf
<1>1. /\ v \in todo /\ v \notin active /\ locations[v].kind = "none"
      /\ stillActive(v) \subseteq active
      /\ \A a \in stillActive(v) : reg(a) \notin freeFor(v)
      /\ \A u \in inRegs \ stillActive(v) : end(u) < start(v)
      /\ \A w \in todo : start(v) <= start(w)
      /\ freeFor(v) \subseteq Regs
  BY <1>0, AfterExpiring
<1>2. /\ locations' \in [Vregs -> Locations] /\ locations'[v] = spilled(spill_slot_count)
      /\ \A u \in Vregs : u # v => locations'[u] = locations[u]
  BY <1>0 DEF ScanInv, Locations, spilled
<1>3. inRegs' = inRegs /\ v \notin inRegs
  BY <1>1, <1>2 DEF inRegs, spilled
<1>4. \A u \in Vregs : start(u)' = start(u) /\ end(u)' = end(u) /\ start(u) \in Int /\ end(u) \in Int
  BY <1>0 DEF start, end, Intervals, ScanInv
<1>5. ActiveHold'
  BY <1>0, <1>1, <1>2, <1>3 DEF ActiveHold, ScanInv, reg
<1>6. OverIsOver'
  BY <1>0, <1>1, <1>3, <1>4 DEF OverIsOver, ScanInv, inRegs
<1>7. TodoIsNone'
  BY <1>0, <1>2 DEF TodoIsNone, ScanInv
<1>8. NoSharedRegister' /\ RegisterFits'
  BY <1>0, <1>2, <1>3, <1>4 DEF NoSharedRegister, RegisterFits, ScanInv, class, inRegs
<1>9. SpillSlotsApart'
  <2>1. spill_slot_count \in Nat
    BY DEF ScanInv
  <2>2. \A u \in inSlots' : \/ u = v /\ locations'[u].slot = spill_slot_count
                            \/ u \in inSlots /\ locations'[u] = locations[u]
    BY <1>2 DEF inSlots, spilled
  <2>3. \A u \in inSlots : locations[u].slot \in 0..(spill_slot_count - 1)
    BY DEF ScanInv, SpillSlotsApart
  <2> QED BY <1>0, <2>1, <2>2, <2>3 DEF SpillSlotsApart, ScanInv
<1>10. ScanTypeOK'
  BY <1>0, <1>1, <1>2 DEF ScanInv
<1> QED BY <1>5, <1>6, <1>7, <1>8, <1>9, <1>10 DEF ScanInv

LEMMA ScanKeeps == ScanInv /\ [ScanStep]_<<phase, scanVars>> => ScanInv'
<1> SUFFICES ASSUME ScanInv, [ScanStep]_<<phase, scanVars>> PROVE ScanInv'
  OBVIOUS
<1> USE DEF ScanInv, ScanTypeOK, ActiveHold, OverIsOver, TodoIsNone, NoSharedRegister,
            RegisterFits, SpillSlotsApart, inRegs, inSlots, start, end, class, reg
<1>1. CASE UNCHANGED <<phase, scanVars>>
  BY <1>1 DEF scanVars
<1>2. CASE finish
  BY <1>2 DEF finish
<1>3. ASSUME NEW v \in Vregs, Scan(v) PROVE ScanInv'
  BY <1>3, TakeFreeKeeps, TakeVictimKeeps, SpillSelfKeeps DEF Scan
<1> QED BY <1>1, <1>2, <1>3 DEF ScanStep

LEMMA ScanAlways == ScanSpec => []ScanInv
<1>1. ScanInit([Vregs -> Intervals]) => ScanInv
  <2> SUFFICES ASSUME ScanInit([Vregs -> Intervals]) PROVE ScanInv
    OBVIOUS
  <2>1. /\ \A v \in Vregs : locations[v] = none
        /\ active = {} /\ todo \subseteq Vregs /\ spill_slot_count = 0
    BY DEF ScanInit, nothingLocated, toAllocate
  <2>2. inRegs = {} /\ inSlots = {}
    BY <2>1 DEF inRegs, inSlots, none
  <2>3. ScanTypeOK
    BY <2>1 DEF ScanInit, nothingLocated, ScanTypeOK, Locations, none
  <2> QED BY <2>1, <2>2, <2>3 DEF ScanInv, ActiveHold, OverIsOver, TodoIsNone, NoSharedRegister,
             RegisterFits, SpillSlotsApart, none
<1> QED BY <1>1, ScanKeeps, PTL DEF ScanSpec

\* Whatever the intervals, the number of registers and the order of the
\* evictions: two vregs whose intervals touch never share a register.
THEOREM NoSharedRegisterAlways == ScanSpec => []NoSharedRegister
<1>1. ScanInv => NoSharedRegister
  BY DEF ScanInv
<1> QED BY <1>1, ScanAlways, PTL

\* A vreg that spans a call is only ever in a callee-saved register, and a
\* register is of the class of the vreg it holds.
THEOREM RegisterFitsAlways == ScanSpec => []RegisterFits
<1>1. ScanInv => RegisterFits
  BY DEF ScanInv
<1> QED BY <1>1, ScanAlways, PTL

\* Two spilled vregs never share a spill slot, and the frame has room for all.
THEOREM SpillSlotsApartAlways == ScanSpec => []SpillSlotsApart
<1>1. ScanInv => SpillSlotsApart
  BY DEF ScanInv
<1> QED BY <1>1, ScanAlways, PTL
-----------------------------------------------------------------------------
(* Liveness *)

LiveTypes == /\ isFunction(func)
             /\ live_in \in [BlockIds -> SUBSET Vregs]
             /\ live_out \in [BlockIds -> SUBSET Vregs]
             /\ b \in 0..block_count

\* What the block needs, as the equations say it
needs(k) == uses(k) \cup (live_out[k] \ defs(k))

\* The sets only grow, and never past what the equations ask for
NotTooMuch == \A k \in BlockIds : live_out[k] \subseteq fromSuccessors(k) /\ live_in[k] \subseteq needs(k)

Enough(k) == fromSuccessors(k) \subseteq live_out[k] /\ needs(k) \subseteq live_in[k]

\* While nothing changed in this sweep, the blocks it went through are settled
SettledSoFar == phase = "live" /\ ~changed => \A k \in BlockIds : k > b => Enough(k)

LiveInv == LiveTypes /\ NotTooMuch /\ SettledSoFar /\ EquationsHold

\* The function doesn't change, so neither do the sets of its blocks.
LEMMA SameFunction ==
  ASSUME func' = func
  PROVE  /\ BlockIds' = BlockIds /\ block_count' = block_count
         /\ \A k : block(k)' = block(k) /\ uses(k)' = uses(k) /\ defs(k)' = defs(k)
  BY DEF BlockIds, block_count, block, uses, defs, inst, InstIds

\* Nothing of the liveness changes once its sweeps are over.
LEMMA LiveVarsUnchanged ==
  ASSUME LiveInv, UNCHANGED liveVars, phase' = phase \/ (phase # "live" /\ phase' # "live")
  PROVE  LiveInv'
<1>1. /\ func' = func /\ live_in' = live_in /\ live_out' = live_out /\ changed' = changed /\ b' = b
  BY DEF liveVars
<1>2. /\ BlockIds' = BlockIds /\ block_count' = block_count
      /\ \A k : block(k)' = block(k) /\ uses(k)' = uses(k) /\ defs(k)' = defs(k)
  BY <1>1, SameFunction
<1>3. \A k : fromSuccessors(k)' = fromSuccessors(k) /\ needs(k)' = needs(k)
  BY <1>1, <1>2 DEF fromSuccessors, needs
<1>4. LiveTypes' /\ NotTooMuch'
  BY <1>1, <1>2, <1>3 DEF LiveInv, LiveTypes, NotTooMuch
<1>5. SettledSoFar'
  BY <1>1, <1>2, <1>3 DEF LiveInv, SettledSoFar, Enough
<1>6. EquationsHold'
  BY <1>1, <1>2, <1>3 DEF LiveInv, EquationsHold
<1> QED BY <1>4, <1>5, <1>6 DEF LiveInv

\* One block of a sweep: the sets grow by what is missing, so the equations are
\* not overshot, and if nothing grew the block was settled.
LEMMA SweepKeeps ==
  ASSUME LiveInv, sweep
  PROVE  LiveInv'
<1>0. /\ phase = "live" /\ phase' = "live" /\ func' = func
      /\ live_out' = [live_out EXCEPT ![b] = @ \cup fromSuccessors(b)]
      /\ live_in' = [live_in EXCEPT ![b] = @ \cup uses(b) \cup (live_out'[b] \ defs(b))]
      /\ b' = b - 1
  BY DEF sweep
<1>1. /\ block_count \in Nat /\ b \in BlockIds /\ b' \in 0..block_count
      /\ \A k \in BlockIds : block(k).succ \subseteq BlockIds
  BY <1>0 DEF sweep, LiveInv, LiveTypes, BlockIds, block_count, block, isFunction
<1>2. /\ BlockIds' = BlockIds /\ block_count' = block_count
      /\ \A k : block(k)' = block(k) /\ uses(k)' = uses(k) /\ defs(k)' = defs(k)
  BY <1>0, SameFunction
<1>3. /\ fromSuccessors(b) \subseteq Vregs /\ uses(b) \subseteq Vregs
  BY <1>1 DEF LiveInv, LiveTypes, fromSuccessors, uses
<1>4. /\ live_out'[b] = live_out[b] \cup fromSuccessors(b)
      /\ live_in'[b] = live_in[b] \cup uses(b) \cup (live_out'[b] \ defs(b))
      /\ \A k \in BlockIds : k # b => live_out'[k] = live_out[k] /\ live_in'[k] = live_in[k]
      /\ live_out' \in [BlockIds -> SUBSET Vregs]
  BY <1>0, <1>1, <1>3 DEF LiveInv, LiveTypes
<1>5. live_in' \in [BlockIds -> SUBSET Vregs]
  BY <1>0, <1>1, <1>3, <1>4 DEF LiveInv, LiveTypes
<1>6. LiveTypes'
  BY <1>0, <1>1, <1>2, <1>4, <1>5 DEF LiveInv, LiveTypes
<1>7. \A k \in BlockIds : fromSuccessors(k) \subseteq fromSuccessors(k)'
  <2>1. \A s \in BlockIds : live_in[s] \subseteq live_in'[s]
    BY <1>4
  <2> QED BY <1>1, <1>2, <2>1 DEF fromSuccessors
<1>8. NotTooMuch'
  <2> SUFFICES ASSUME NEW k \in BlockIds
               PROVE  live_out'[k] \subseteq fromSuccessors(k)' /\ live_in'[k] \subseteq needs(k)'
    BY <1>2 DEF NotTooMuch
  <2>1. live_out[k] \subseteq fromSuccessors(k) /\ live_in[k] \subseteq needs(k)
    BY DEF LiveInv, NotTooMuch
  <2>2. live_out'[k] \subseteq fromSuccessors(k)'
    BY <1>4, <1>7, <2>1
  <2>3. live_in'[k] \subseteq needs(k)'
    BY <1>2, <1>4, <2>1 DEF needs
  <2> QED BY <2>2, <2>3
<1>9. SettledSoFar'
  <2> SUFFICES ASSUME ~changed', NEW k \in BlockIds, k > b' PROVE Enough(k)'
    BY <1>2 DEF SettledSoFar
  <2>1. ~changed /\ live_out' = live_out /\ live_in' = live_in
    BY Zenon DEF sweep
  <2>2. fromSuccessors(k)' = fromSuccessors(k) /\ needs(k)' = needs(k)
    BY <1>2, <2>1 DEF fromSuccessors, needs
  <2>3. CASE k = b
    BY <1>4, <2>1, <2>2, <2>3 DEF Enough, needs
  <2>4. CASE k # b
    <3>1. k > b
      BY <1>0, <1>1, <2>4 DEF BlockIds
    <3> QED BY <1>0, <2>1, <2>2, <3>1 DEF LiveInv, SettledSoFar, Enough
  <2> QED BY <2>3, <2>4
<1>10. EquationsHold'
  BY <1>0 DEF EquationsHold
<1> QED BY <1>6, <1>8, <1>9, <1>10 DEF LiveInv

LEMMA LiveKeeps == LiveInv /\ [Next]_vars => LiveInv'
<1> SUFFICES ASSUME LiveInv, [Next]_vars PROVE LiveInv'
  OBVIOUS
<1>1. CASE UNCHANGED vars
  BY <1>1, LiveVarsUnchanged DEF vars
<1>2. CASE sweep
  BY <1>2, SweepKeeps
<1>3. CASE sweepAgain
  <2>1. /\ func' = func /\ live_in' = live_in /\ live_out' = live_out
        /\ phase = "live" /\ phase' = "live" /\ b' = block_count
    BY <1>3 DEF sweepAgain
  <2>2. /\ BlockIds' = BlockIds /\ block_count' = block_count
        /\ \A k : block(k)' = block(k) /\ uses(k)' = uses(k) /\ defs(k)' = defs(k)
    BY <2>1, SameFunction
  <2>3. block_count \in Nat
    BY DEF LiveInv, LiveTypes, isFunction, block_count
  <2>4. LiveTypes'
    BY <2>1, <2>2, <2>3 DEF LiveInv, LiveTypes
  <2>5. NotTooMuch'
    BY <2>1, <2>2 DEF LiveInv, NotTooMuch, fromSuccessors, needs
  <2>6. SettledSoFar' /\ EquationsHold'
    BY <2>1, <2>2, <2>3 DEF SettledSoFar, EquationsHold, BlockIds
  <2> QED BY <2>4, <2>5, <2>6 DEF LiveInv
<1>4. CASE sweepDone
  <2>1. UNCHANGED liveVars /\ phase = "live" /\ b = 0 /\ ~changed /\ phase' # "live"
    BY <1>4 DEF sweepDone
  <2>2. /\ func' = func /\ live_in' = live_in /\ live_out' = live_out /\ b' = b
    BY <2>1 DEF liveVars
  <2>3. /\ BlockIds' = BlockIds /\ block_count' = block_count
        /\ \A k : block(k)' = block(k) /\ uses(k)' = uses(k) /\ defs(k)' = defs(k)
    BY <2>2, SameFunction
  <2>4. \A k : fromSuccessors(k)' = fromSuccessors(k) /\ needs(k)' = needs(k)
    BY <2>2, <2>3 DEF fromSuccessors, needs
  <2>5. LiveTypes' /\ NotTooMuch'
    BY <2>2, <2>3, <2>4 DEF LiveInv, LiveTypes, NotTooMuch
  <2>6. \A k \in BlockIds : Enough(k)
    BY <2>1 DEF LiveInv, SettledSoFar, BlockIds
  <2>7. \A k \in BlockIds : live_out[k] = fromSuccessors(k) /\ live_in[k] = needs(k)
    BY <2>6 DEF LiveInv, NotTooMuch, Enough
  <2>8. EquationsHold'
    BY <2>2, <2>3, <2>4, <2>7 DEF EquationsHold, needs
  <2>9. SettledSoFar'
    BY <2>1 DEF SettledSoFar
  <2> QED BY <2>5, <2>8, <2>9 DEF LiveInv
<1>5. CASE buildIntervals
  BY <1>5, LiveVarsUnchanged DEF buildIntervals
<1>6. CASE ScanStep /\ UNCHANGED liveVars
  <2>1. phase = "scan" /\ phase' # "live"
    BY <1>6 DEF ScanStep, Scan, takeFree, takeVictim, spillSelf, finish
  <2> QED BY <1>6, <2>1, LiveVarsUnchanged
<1> QED BY <1>1, <1>2, <1>3, <1>4, <1>5, <1>6 DEF Next, LiveStep

LEMMA LiveInitially == Init => LiveInv
<1> SUFFICES ASSUME Init PROVE LiveInv
  OBVIOUS
<1>1. isFunction(func) /\ phase = "live" /\ b = block_count
      /\ live_in = [k \in BlockIds |-> {}] /\ live_out = [k \in BlockIds |-> {}]
  BY LivenessAssumption DEF Init, LiveInit
<1>2. block_count \in Nat
  BY <1>1 DEF isFunction, block_count
<1>3. LiveTypes /\ NotTooMuch
  BY <1>1, <1>2 DEF LiveTypes, NotTooMuch
<1> QED BY <1>1, <1>2, <1>3 DEF LiveInv, SettledSoFar, EquationsHold, BlockIds

\* The dataflow equations hold for every block when the sweeps end, for any
\* function: stopping at the first sweep that changes nothing is enough.
THEOREM EquationsHoldAlways == Spec => []EquationsHold
<1>1. LiveInv => EquationsHold
  BY DEF LiveInv
<1> QED BY LiveInitially, LiveKeeps, <1>1, PTL DEF Spec

-----------------------------------------------------------------------------
(* Paths. The definition of livePath looks at paths of as many blocks as   *)
(* the function has: longer ones go through a block twice.                 *)

IsPath(path, n, k, v) ==
    /\ path \in [1..n -> BlockIds] /\ path[1] = k
    /\ \A i \in 1..(n-1) : path[i+1] \in block(path[i]).succ /\ v \notin defs(path[i])
    /\ v \in uses(path[n])

LEMMA PathHere ==
  ASSUME NEW k \in BlockIds, NEW v \in uses(k)
  PROVE  \E path : IsPath(path, 1, k, v)
<1> DEFINE path == [i \in 1..1 |-> k]
<1>1. IsPath(path, 1, k, v)
  BY DEF IsPath
<1> QED BY <1>1

LEMMA PathOn ==
  ASSUME NEW k \in BlockIds, NEW s \in block(k).succ, NEW v, v \notin defs(k),
         NEW n \in Nat \ {0}, NEW path, IsPath(path, n, s, v)
  PROVE  \E longer : IsPath(longer, n + 1, k, v)
<1> DEFINE longer == [i \in 1..(n + 1) |-> IF i = 1 THEN k ELSE path[i - 1]]
<1>1. path \in [1..n -> BlockIds] /\ path[1] = s /\ v \in uses(path[n])
      /\ \A i \in 1..(n-1) : path[i+1] \in block(path[i]).succ /\ v \notin defs(path[i])
  BY DEF IsPath
<1>2. \A i \in 1..(n + 1) : i # 1 => i - 1 \in 1..n
  OBVIOUS
<1>3. longer \in [1..(n + 1) -> BlockIds] /\ longer[1] = k
  BY <1>1, <1>2
<1>4. longer[n + 1] = path[n]
  OBVIOUS
<1>5. ASSUME NEW i \in 1..((n + 1) - 1)
      PROVE  longer[i + 1] \in block(longer[i]).succ /\ v \notin defs(longer[i])
  <2>1. longer[i + 1] = path[i]
    OBVIOUS
  <2>2. CASE i = 1
    BY <1>1, <1>3, <2>1, <2>2
  <2>3. CASE i # 1
    <3>1. PICK j \in 1..(n - 1) : j + 1 = i
      <4>1. i - 1 \in 1..(n - 1) /\ (i - 1) + 1 = i
        BY <2>3
      <4> QED BY <4>1
    <3>2. longer[i] = path[j]
      BY <2>3, <3>1
    <3> QED BY <1>1, <2>1, <3>1, <3>2
  <2> QED BY <2>2, <2>3
<1> HIDE DEF longer
<1>6. IsPath(longer, n + 1, k, v)
  BY <1>1, <1>3, <1>4, <1>5 DEF IsPath
<1> QED BY <1>6

\* A path that comes to a block again has a shorter one in it.
LEMMA PathCut ==
  ASSUME NEW k, NEW v, NEW n \in Nat \ {0}, NEW path, IsPath(path, n, k, v),
         NEW i \in 1..n, NEW j \in 1..n, i < j, path[i] = path[j]
  PROVE  \E shorter : IsPath(shorter, n - (j - i), k, v)
<1> DEFINE d == j - i
           m == n - d
           shorter == [x \in 1..m |-> IF x < i THEN path[x] ELSE path[x + d]]
<1>1. path \in [1..n -> BlockIds] /\ path[1] = k /\ v \in uses(path[n])
      /\ \A x \in 1..(n-1) : path[x+1] \in block(path[x]).succ /\ v \notin defs(path[x])
  BY DEF IsPath
<1>2. d \in 1..n /\ m \in Nat /\ i <= m /\ m < n /\ m + d = n /\ i + d = j
  OBVIOUS
<1> HIDE DEF d, m
<1>3. \A x \in 1..m : x \in 1..n /\ x + d \in 1..n
  BY <1>2
<1>4. shorter \in [1..m -> BlockIds]
  BY <1>1, <1>3
<1>5. shorter[1] = k
  <2>1. 1 \in 1..m
    BY <1>2
  <2>2. CASE 1 < i
    BY <1>1, <2>1, <2>2
  <2>3. CASE i = 1
    <3>1. shorter[1] = path[1 + d] /\ 1 + d = j
      BY <1>2, <2>1, <2>3
    <3> QED BY <1>1, <2>3, <3>1
  <2> QED BY <2>2, <2>3
<1>6. shorter[m] = path[n]
  <2>1. m \in 1..m /\ ~(m < i)
    BY <1>2
  <2> QED BY <1>2, <2>1
<1>7. ASSUME NEW x \in 1..(m - 1)
      PROVE  shorter[x + 1] \in block(shorter[x]).succ /\ v \notin defs(shorter[x])
  <2>1. x \in 1..m /\ x + 1 \in 1..m /\ x \in 1..(n - 1) /\ x + d \in 1..(n - 1) /\ (x + 1) + d = (x + d) + 1
    BY <1>2
  <2>2. CASE x + 1 < i
    BY <1>1, <2>1, <2>2
  <2>3. CASE x + 1 = i
    <3>1. shorter[x + 1] = path[j] /\ shorter[x] = path[x]
      BY <1>2, <2>1, <2>3
    <3>2. shorter[x + 1] = path[x + 1]
      BY <2>3, <3>1
    <3> QED BY <1>1, <2>1, <3>1, <3>2
  <2>4. CASE ~(x + 1 <= i)
    <3>1. ~(x < i) /\ ~(x + 1 < i)
      BY <2>4
    <3>2. shorter[x] = path[x + d] /\ shorter[x + 1] = path[(x + d) + 1]
      BY <2>1, <3>1
    <3> QED BY <1>1, <2>1, <3>2
  <2> QED BY <2>2, <2>3, <2>4
<1> HIDE DEF shorter
<1>8. IsPath(shorter, m, k, v)
  BY <1>1, <1>4, <1>5, <1>6, <1>7 DEF IsPath
<1> QED BY <1>8 DEF m, d

\* So whatever its length, a path makes a vreg live.
LEMMA PathIsLive ==
  ASSUME block_count \in Nat, NEW k \in BlockIds, NEW v, NEW n \in Nat \ {0}, NEW path, IsPath(path, n, k, v)
  PROVE  livePath(k, v)
<1> DEFINE T == {m \in Nat : m # 0 /\ \E p : IsPath(p, m, k, v)}
<1>1. T # {} /\ T \in SUBSET Nat
  OBVIOUS
<1> HIDE DEF T
<1>2. PICK m \in T : \A o \in T : m <= o
  BY <1>1, LeastNat
<1>3. m \in Nat \ {0} /\ \E p : IsPath(p, m, k, v)
  BY DEF T
<1>4. PICK p : IsPath(p, m, k, v)
  BY <1>3
<1>5. \A i, j \in 1..m : i < j => p[i] # p[j]
  <2> SUFFICES ASSUME NEW i \in 1..m, NEW j \in 1..m, i < j, p[i] = p[j] PROVE FALSE
    OBVIOUS
  <2>1. \E q : IsPath(q, m - (j - i), k, v)
    BY <1>3, <1>4, PathCut
  <2>2. m - (j - i) \in Nat /\ m - (j - i) # 0 /\ ~(m <= m - (j - i))
    BY <1>3
  <2>3. m - (j - i) \in T
    BY <2>1, <2>2 DEF T
  <2> QED BY <1>2, <2>2, <2>3
<1>6. m <= block_count
  <2> SUFFICES ASSUME block_count < m PROVE FALSE
    BY <1>3
  <2>1. IsFiniteSet(1..m) /\ Cardinality(1..m) = m
    BY <1>3, FS_Interval
  <2>2. IsFiniteSet(BlockIds) /\ Cardinality(BlockIds) = block_count
    BY FS_Interval DEF BlockIds
  <2>3. p \in [1..m -> BlockIds]
    BY <1>4 DEF IsPath
  <2>4. PICK i, j \in 1..m : i # j /\ p[i] = p[j]
    <3> DEFINE S == 1..m
    <3>1. IsFiniteSet(S) /\ IsFiniteSet(BlockIds) /\ Cardinality(BlockIds) < Cardinality(S) /\ p \in [S -> BlockIds]
      BY <2>1, <2>2, <2>3
    <3> HIDE DEF S
    <3>2. \E i, j \in S : i # j /\ p[i] = p[j]
      BY <3>1, FS_PigeonHole
    <3> QED BY <3>2 DEF S
  <2>5. i < j \/ j < i
    BY <1>3, <2>4
  <2> QED BY <1>5, <2>4, <2>5
<1>7. m \in BlockIds
  BY <1>3, <1>6 DEF BlockIds
<1> QED BY <1>4, <1>7 DEF livePath, IsPath

LEMMA LiveIsPath ==
  ASSUME NEW k, NEW v, livePath(k, v)
  PROVE  \E n \in BlockIds : \E path : IsPath(path, n, k, v)
  BY DEF livePath, IsPath

-----------------------------------------------------------------------------
(* Liveness                                                                *)

\* What a block needs is what is on a path from it, one block at a time.
LEMMA LiveHere ==
  ASSUME block_count \in Nat, NEW k \in BlockIds, NEW v \in uses(k)
  PROVE  livePath(k, v)
  BY PathHere, PathIsLive

LEMMA LiveThrough ==
  ASSUME block_count \in Nat, NEW k \in BlockIds, NEW s \in block(k).succ, NEW v, v \notin defs(k), livePath(s, v)
  PROVE  livePath(k, v)
<1>1. PICK n \in BlockIds : \E path : IsPath(path, n, s, v)
  BY LiveIsPath
<1>2. n \in Nat \ {0} /\ n + 1 \in Nat \ {0}
  BY DEF BlockIds
<1>3. \E longer : IsPath(longer, n + 1, k, v)
  BY <1>1, <1>2, PathOn
<1> QED BY <1>2, <1>3, PathIsLive

\* The sets of the blocks hold nothing that isn't live
Grounded == \A k \in BlockIds : \A v \in live_in[k] : livePath(k, v)

LEMMA SamePaths ==
  ASSUME func' = func
  PROVE  BlockIds' = BlockIds /\ \A k, v : livePath(k, v)' <=> livePath(k, v)
  BY SameFunction DEF livePath

LEMMA SweepGrounded ==
  ASSUME LiveInv, Grounded, sweep
  PROVE  Grounded'
<1>1. /\ phase = "live" /\ func' = func /\ b \in BlockIds /\ block_count \in Nat
      /\ live_out' = [live_out EXCEPT ![b] = @ \cup fromSuccessors(b)]
      /\ live_in' = [live_in EXCEPT ![b] = @ \cup uses(b) \cup (live_out'[b] \ defs(b))]
      /\ live_out \in [BlockIds -> SUBSET Vregs] /\ live_in \in [BlockIds -> SUBSET Vregs]
      /\ live_out[b] \subseteq fromSuccessors(b) /\ block(b).succ \subseteq BlockIds
  BY DEF sweep, LiveInv, LiveTypes, BlockIds, block_count, block, isFunction, NotTooMuch
<1>2. BlockIds' = BlockIds /\ \A k, v : livePath(k, v)' <=> livePath(k, v)
  BY <1>1, SamePaths
<1>3. ASSUME NEW v \in live_in'[b] PROVE livePath(b, v)
  <2>1. v \in live_in[b] \/ v \in uses(b) \/ (v \in fromSuccessors(b) /\ v \notin defs(b))
    BY <1>1
  <2>2. CASE v \in live_in[b]
    BY <1>1, <2>2 DEF Grounded
  <2>3. CASE v \in uses(b)
    BY <1>1, <2>3, LiveHere
  <2>4. CASE v \in fromSuccessors(b) /\ v \notin defs(b)
    <3>1. PICK s \in block(b).succ : v \in live_in[s]
      BY <2>4 DEF fromSuccessors
    <3>2. livePath(s, v)
      BY <1>1, <3>1 DEF Grounded
    <3> QED BY <1>1, <2>4, <3>1, <3>2, LiveThrough
  <2> QED BY <2>1, <2>2, <2>3, <2>4
<1>4. \A k \in BlockIds : k # b => live_in'[k] = live_in[k]
  BY <1>1
<1> QED BY <1>2, <1>3, <1>4 DEF Grounded

LEMMA LiveGrounded == LiveInv /\ Grounded /\ [Next]_vars => Grounded'
<1> SUFFICES ASSUME LiveInv, Grounded, [Next]_vars PROVE Grounded'
  OBVIOUS
<1>1. CASE sweep
  BY <1>1, SweepGrounded
<1>2. CASE func' = func /\ live_in' = live_in
  <2>1. BlockIds' = BlockIds /\ \A k, v : livePath(k, v)' <=> livePath(k, v)
    BY <1>2, SamePaths
  <2> QED BY <1>2, <2>1 DEF Grounded
<1>3. sweep \/ (func' = func /\ live_in' = live_in)
  BY DEF Next, LiveStep, sweepAgain, sweepDone, buildIntervals, liveVars, vars
<1> QED BY <1>1, <1>2, <1>3

\* Back along a path from where a vreg is read, it is in the set of each block.
LEMMA PathFound ==
  ASSUME LiveInv, phase # "live", NEW k \in BlockIds, NEW v, livePath(k, v)
  PROVE  v \in live_in[k]
<1>1. PICK n \in BlockIds : \E path : IsPath(path, n, k, v)
  BY LiveIsPath
<1>2. PICK path : IsPath(path, n, k, v)
  BY <1>1
<1>3. /\ n \in Nat \ {0} /\ path \in [1..n -> BlockIds] /\ path[1] = k /\ v \in uses(path[n])
      /\ \A i \in 1..(n-1) : path[i+1] \in block(path[i]).succ /\ v \notin defs(path[i])
  BY <1>2 DEF IsPath, BlockIds
<1>4. \A j \in BlockIds : live_out[j] = fromSuccessors(j) /\ live_in[j] = uses(j) \cup (live_out[j] \ defs(j))
  BY DEF LiveInv, EquationsHold
<1> DEFINE T == {m \in 0..(n - 1) : v \notin live_in[path[n - m]]}
<1>5. T = {}
  <2> SUFFICES ASSUME T # {} PROVE FALSE
    OBVIOUS
  <2>1. PICK m \in T : \A o \in T : m <= o
    <3>1. T \in SUBSET Nat
      BY <1>3
    <3> HIDE DEF T
    <3> QED BY <3>1, LeastNat
  <2>2. n - m \in 1..n /\ path[n - m] \in BlockIds
    BY <1>3
  <2>3. m # 0
    <3>1. n \in 1..n
      BY <1>3
    <3>2. path[n] \in BlockIds
      BY <1>3, <3>1
    <3>3. live_in[path[n]] = uses(path[n]) \cup (live_out[path[n]] \ defs(path[n]))
      BY <1>4, <3>2
    <3>4. v \in live_in[path[n]]
      BY <1>3, <3>3
    <3>5. n - 0 = n
      BY <1>3
    <3> QED BY <3>4, <3>5
  <2>4. m - 1 \in 0..(n - 1) /\ m - 1 \notin T
    <3>1. m \in 0..(n - 1) /\ n \in Nat \ {0}
      BY <1>3
    <3>2. m - 1 \in 0..(n - 1) /\ ~(m <= m - 1)
      BY <2>3, <3>1
    <3> HIDE DEF T
    <3> QED BY <2>1, <3>2
  <2>5. PICK i \in 1..(n - 1) : i = n - m
    BY <1>3, <2>3
  <2>6. n - (m - 1) = i + 1 /\ v \in live_in[path[i + 1]]
    BY <1>3, <2>4, <2>5
  <2>7. v \in fromSuccessors(path[i]) /\ v \notin defs(path[i])
    BY <1>3, <2>6 DEF fromSuccessors
  <2>8. v \in live_in[path[i]]
    BY <1>4, <2>2, <2>5, <2>7
  <2> QED BY <2>5, <2>8
<1>6. n - 1 \in 0..(n - 1) /\ n - (n - 1) = 1
  BY <1>3
<1>7. v \in live_in[path[n - (n - 1)]]
  BY <1>5, <1>6
<1> QED BY <1>3, <1>6, <1>7

\* A vreg is live into a block exactly when a path from it reads the vreg before
\* anything writes it, around loops as well: for every function, whatever its
\* blocks jump to.
THEOREM LivenessExactAlways == Spec => []LivenessExact
<1>1. Init => Grounded
  BY DEF Init, LiveInit, Grounded
<1>2. LiveInv /\ Grounded => LivenessExact
  <2> SUFFICES ASSUME LiveInv, Grounded, phase # "live", NEW k \in BlockIds
               PROVE  live_in[k] = {v \in Vregs : livePath(k, v)}
    BY DEF LivenessExact
  <2>1. live_in[k] \subseteq Vregs
    BY DEF LiveInv, LiveTypes
  <2>2. \A v : livePath(k, v) => v \in live_in[k]
    BY PathFound
  <2>3. \A v \in live_in[k] : livePath(k, v)
    BY DEF Grounded
  <2> QED BY <2>1, <2>2, <2>3
<1> QED BY LiveInitially, LiveKeeps, <1>1, LiveGrounded, <1>2, PTL DEF Spec
-----------------------------------------------------------------------------
(* Positions                                                               *)

IsStarts(f, n) == f = [k \in 1..n |-> IF k = 1 THEN 2 ELSE f[k-1] + 2 * (Len(block(k-1).insts) + 1)]

LEMMA StartsExist ==
  ASSUME NEW n \in Nat
  PROVE  \E f : IsStarts(f, n)
<1> DEFINE T == {m \in Nat : ~\E f : IsStarts(f, m)}
<1> SUFFICES ASSUME T # {} PROVE FALSE
  OBVIOUS
<1>1. PICK m \in T : \A k \in T : m <= k
  BY LeastNat
<1>2. m # 0
  <2> DEFINE f == [k \in 1..0 |-> 0]
  <2>1. IsStarts(f, 0)
    BY DEF IsStarts
  <2> QED BY <2>1
<1>3. m - 1 \in Nat /\ m - 1 \notin T
  BY <1>1, <1>2
<1>4. PICK g : IsStarts(g, m - 1)
  BY <1>3
<1> DEFINE f == [k \in 1..m |-> IF k = 1 THEN 2 ELSE g[k-1] + 2 * (Len(block(k-1).insts) + 1)]
<1>5. \A k \in 1..(m - 1) : f[k] = g[k]
  BY <1>4 DEF IsStarts
<1>6. f = [k \in 1..m |-> IF k = 1 THEN 2 ELSE f[k-1] + 2 * (Len(block(k-1).insts) + 1)]
  <2>1. \A k \in 1..m : k # 1 => k - 1 \in 1..(m - 1)
    BY <1>3
  <2>2. \A k \in 1..(m - 1) : k \in 1..m
    BY <1>3
  <2>3. \A k \in 1..m : k # 1 => f[k - 1] = g[k - 1]
    BY <2>1, <1>5
  <2> QED BY <2>3
<1> QED BY <1>1, <1>6 DEF IsStarts

LEMMA FunctionShape ==
  ASSUME LiveTypes
  PROVE  /\ block_count \in Nat \ {0} /\ BlockIds = 1..block_count
         /\ \A k \in BlockIds : /\ Len(block(k).insts) \in Nat /\ block(k).succ \subseteq BlockIds
                                /\ InstIds(k) = 1..Len(block(k).insts) /\ block(k).use \subseteq Vregs
                                /\ \A i \in InstIds(k) : inst(k, i).use \subseteq Vregs /\ inst(k, i).dst \in Vregs \cup {NoVreg}
         /\ func.params \subseteq Vregs /\ \A v \in Vregs : func.reg_class[v] \in RegClasses
<1>1. isFunction(func)
  BY DEF LiveTypes
<1>2. func.blocks \in Seq(Blocks) /\ Len(func.blocks) > 0
  BY <1>1 DEF isFunction
<1>3. block_count \in Nat \ {0} /\ BlockIds = 1..block_count
  BY <1>2 DEF block_count, BlockIds
<1>4. ASSUME NEW k \in BlockIds
      PROVE  /\ Len(block(k).insts) \in Nat /\ block(k).succ \subseteq BlockIds
             /\ InstIds(k) = 1..Len(block(k).insts) /\ block(k).use \subseteq Vregs
             /\ \A i \in InstIds(k) : inst(k, i).use \subseteq Vregs /\ inst(k, i).dst \in Vregs \cup {NoVreg}
  <2>1. block(k) \in Blocks
    BY <1>2, <1>3 DEF block, block_count
  <2>2. block(k).insts \in Seq(Insts) /\ block(k).use \subseteq Vregs
    BY <2>1 DEF Blocks
  <2>3. block(k).succ \subseteq BlockIds
    BY <1>1, <1>3 DEF isFunction, block, block_count
  <2>4. Len(block(k).insts) \in Nat /\ InstIds(k) = 1..Len(block(k).insts)
    BY <2>2 DEF InstIds
  <2>5. \A i \in InstIds(k) : block(k).insts[i] \in Insts
    BY <2>2, <2>4
  <2>6. \A i \in InstIds(k) : inst(k, i).use \subseteq Vregs /\ inst(k, i).dst \in Vregs \cup {NoVreg}
    BY <2>5 DEF Insts, inst
  <2> QED BY <2>2, <2>3, <2>4, <2>6
<1>5. func.params \subseteq Vregs /\ \A v \in Vregs : func.reg_class[v] \in RegClasses
  BY <1>1 DEF isFunction
<1> QED BY <1>3, <1>4, <1>5

\* Every block starts after the one before it and its terminator.
LEMMA StartSteps ==
  ASSUME LiveTypes
  PROVE  /\ block_start[1] = 2
         /\ \A k \in BlockIds : k + 1 \in BlockIds => block_start[k + 1] = block_start[k] + 2 * (Len(block(k).insts) + 1)
<1>1. block_count \in Nat \ {0} /\ BlockIds = 1..block_count
  BY FunctionShape
<1>2. block_start = CHOOSE f : IsStarts(f, block_count)
  BY <1>1 DEF block_start, IsStarts
<1>3. \E f : IsStarts(f, block_count)
  BY <1>1, StartsExist
<1>4. IsStarts(block_start, block_count)
  BY <1>2, <1>3, Zenon
<1>5. block_start = [k \in 1..block_count |-> IF k = 1 THEN 2 ELSE block_start[k-1] + 2 * (Len(block(k-1).insts) + 1)]
  BY <1>4 DEF IsStarts
<1>6. block_start[1] = 2
  BY <1>1, <1>5
<1>7. ASSUME NEW k \in BlockIds, k + 1 \in BlockIds
      PROVE  block_start[k + 1] = block_start[k] + 2 * (Len(block(k).insts) + 1)
  <2>1. k + 1 \in 1..block_count /\ k + 1 # 1 /\ (k + 1) - 1 = k
    BY <1>1, <1>7
  <2> QED BY <1>5, <2>1
<1> QED BY <1>6, <1>7

LEMMA Starts ==
  ASSUME LiveTypes
  PROVE  \A k \in BlockIds : block_start[k] \in Nat /\ 2 <= block_start[k] /\ block_end(k) \in Nat /\ block_start[k] <= block_end(k)
<1>1. block_count \in Nat \ {0} /\ BlockIds = 1..block_count /\ \A k \in BlockIds : Len(block(k).insts) \in Nat
  BY FunctionShape
<1> DEFINE T == {k \in BlockIds : ~(block_start[k] \in Nat /\ 2 <= block_start[k])}
<1>2. T = {}
  <2> SUFFICES ASSUME T # {} PROVE FALSE
    OBVIOUS
  <2>1. PICK m \in T : \A k \in T : m <= k
    <3>1. T \in SUBSET Nat
      BY <1>1
    <3> HIDE DEF T
    <3> QED BY <3>1, LeastNat
  <2>2. m # 1
    BY StartSteps
  <2>3. PICK k \in BlockIds : k + 1 = m
    <3>1. m - 1 \in BlockIds /\ (m - 1) + 1 = m
      BY <1>1, <2>2
    <3> QED BY <3>1
  <2>4. k \notin T
    BY <1>1, <2>1, <2>3
  <2>5. block_start[m] = block_start[k] + 2 * (Len(block(k).insts) + 1)
    BY <2>3, StartSteps
  <2>6. Len(block(k).insts) \in Nat /\ block_start[k] \in Nat /\ 2 <= block_start[k]
    BY <1>1, <2>4
  <2>7. block_start[m] \in Nat /\ 2 <= block_start[m]
    BY <2>5, <2>6
  <2> QED BY <2>7
<1>3. \A k \in BlockIds : block_start[k] \in Nat /\ 2 <= block_start[k]
  BY <1>2
<1> HIDE DEF T
<1> QED BY <1>1, <1>3 DEF block_end

LEMMA BlocksInOrder ==
  ASSUME LiveTypes, NEW j \in BlockIds, NEW k \in BlockIds, j < k
  PROVE  block_end(j) < block_start[k]
<1>1. block_count \in Nat \ {0} /\ BlockIds = 1..block_count
      /\ \A l \in BlockIds : Len(block(l).insts) \in Nat /\ block_start[l] \in Nat /\ block_end(l) \in Nat /\ block_start[l] <= block_end(l)
  BY FunctionShape, Starts
<1> DEFINE T == {l \in BlockIds : j < l /\ ~(block_end(j) < block_start[l])}
<1>2. T = {}
  <2> SUFFICES ASSUME T # {} PROVE FALSE
    OBVIOUS
  <2>1. PICK m \in T : \A l \in T : m <= l
    <3>1. T \in SUBSET Nat
      BY <1>1
    <3> HIDE DEF T
    <3> QED BY <3>1, LeastNat
  <2>2. PICK l \in BlockIds : l + 1 = m
    <3>1. m - 1 \in BlockIds /\ (m - 1) + 1 = m
      BY <1>1
    <3> QED BY <3>1
  <2>3. l \notin T /\ j <= l
    BY <1>1, <2>1, <2>2
  <2>4. block_start[m] = block_start[l] + 2 * (Len(block(l).insts) + 1)
    BY <2>2, StartSteps
  <2>5. block_end(l) = block_start[l] + 2 * Len(block(l).insts)
    BY DEF block_end
  <2>6. block_end(l) < block_start[m]
    BY <1>1, <2>4, <2>5
  <2>7. block_end(j) <= block_end(l)
    <3>1. CASE j = l
      BY <1>1, <3>1
    <3>2. CASE j < l
      <4>1. block_end(j) < block_start[l]
        BY <2>3, <3>2
      <4> QED BY <1>1, <4>1
    <3> QED BY <1>1, <2>3, <3>1, <3>2
  <2>8. block_end(j) < block_start[m]
    <3>1. block_end(j) \in Nat /\ block_end(l) \in Nat /\ block_start[m] \in Nat
      BY <1>1
    <3> QED BY <2>6, <2>7, <3>1
  <2> QED BY <2>8
<1> QED BY <1>2

\* Where an instruction is in its block
LEMMA InstPosition ==
  ASSUME LiveTypes, NEW k \in BlockIds, NEW i \in InstIds(k)
  PROVE  /\ inst_position(k, i) \in Nat /\ 2 <= inst_position(k, i)
         /\ block_start[k] <= inst_position(k, i) /\ inst_position(k, i) < block_end(k)
         /\ \A j \in InstIds(k) : j < i => inst_position(k, j) < inst_position(k, i)
<1>1. Len(block(k).insts) \in Nat /\ InstIds(k) = 1..Len(block(k).insts) /\ block_start[k] \in Nat /\ 2 <= block_start[k]
  BY FunctionShape, Starts
<1> QED BY <1>1 DEF inst_position, block_end

-----------------------------------------------------------------------------
(* Intervals                                                               *)

LEMMA TouchedRange ==
  ASSUME LiveTypes, NEW v
  PROVE  block_end(block_count) \in Nat /\ touched(v) \subseteq 0..block_end(block_count)
<1>1. block_count \in BlockIds /\ BlockIds = 1..block_count /\ block_count \in Nat
  BY FunctionShape
<1>2. block_end(block_count) \in Nat
  BY <1>1, Starts
<1>3. ASSUME NEW k \in BlockIds
      PROVE  block_start[k] \in Nat /\ block_end(k) \in Nat /\ block_start[k] <= block_end(k) /\ block_end(k) <= block_end(block_count)
  <2>1. block_start[k] \in Nat /\ block_end(k) \in Nat /\ block_start[k] <= block_end(k)
    BY Starts
  <2>2. CASE k = block_count
    BY <2>1, <2>2
  <2>3. CASE k # block_count
    <3>1. k < block_count
      BY <1>1, <2>3
    <3>2. block_end(k) < block_start[block_count] /\ block_start[block_count] <= block_end(block_count) /\ block_start[block_count] \in Nat
      BY <1>1, <3>1, BlocksInOrder, Starts
    <3> QED BY <1>2, <2>1, <3>2
  <2> QED BY <2>1, <2>2, <2>3
<1>4. ASSUME NEW p \in touched(v) PROVE p \in 0..block_end(block_count)
  <2>1. CASE \E k \in BlockIds : \E i \in InstIds(k) : p = inst_position(k, i)
    <3>1. PICK k \in BlockIds : \E i \in InstIds(k) : p = inst_position(k, i)
      BY <2>1
    <3>2. PICK i \in InstIds(k) : p = inst_position(k, i)
      BY <3>1
    <3>3. p \in Nat /\ p < block_end(k) /\ block_end(k) \in Nat /\ block_end(k) <= block_end(block_count)
      BY <1>3, <3>2, InstPosition
    <3> QED BY <1>2, <3>3
  <2>2. CASE \E k \in BlockIds : p = block_start[k] \/ p = block_end(k)
    <3>1. PICK k \in BlockIds : p = block_start[k] \/ p = block_end(k)
      BY <2>2
    <3> QED BY <1>2, <1>3, <3>1
  <2>3. CASE p = 0
    BY <1>2, <2>3
  <2>4. \/ \E k \in BlockIds : \E i \in InstIds(k) : p = inst_position(k, i)
        \/ \E k \in BlockIds : p = block_start[k] \/ p = block_end(k)
        \/ p = 0
    BY DEF touched
  <2> QED BY <2>1, <2>2, <2>3, <2>4
<1> QED BY <1>2, <1>4

\* The interval of a vreg holds every position that touches it, and crosses the calls between two of them.
LEMMA IntervalHolds ==
  ASSUME LiveTypes, NEW v \in Vregs, NEW p \in touched(v)
  PROVE  /\ intervalOf(v).start \in Nat /\ intervalOf(v).end \in Nat /\ p \in Nat
         /\ intervalOf(v).start <= p /\ p <= intervalOf(v).end
         /\ \A q \in touched(v) : \A at \in call_positions : p < at /\ at < q => intervalOf(v).crosses_call
         /\ intervalOf(v) \in Intervals
<1> DEFINE T == touched(v)
<1>1. block_end(block_count) \in Nat /\ T \in SUBSET (0..block_end(block_count)) /\ T # {}
  BY TouchedRange
<1>2. T \in SUBSET Nat
  BY <1>1
<1> HIDE DEF T
<1>3. least(T) \in T /\ \A q \in T : least(T) <= q
  <2>1. \E n \in T : \A m \in T : n <= m
    BY <1>1, <1>2, LeastNat
  <2> QED BY <2>1 DEF least
<1>4. greatest(T) \in T /\ \A q \in T : q <= greatest(T)
  <2>1. \E n \in T : \A m \in T : m <= n
    BY <1>1, GreatestNat
  <2> QED BY <2>1 DEF greatest
<1>5. intervalOf(v) = [start |-> least(T), end |-> greatest(T), reg_class |-> func.reg_class[v],
                       crosses_call |-> spansCall(least(T), greatest(T))]
  BY <1>1 DEF intervalOf, T
<1>6. func.reg_class[v] \in RegClasses
  BY FunctionShape
<1>7. least(T) \in Nat /\ greatest(T) \in Nat /\ p \in T /\ p \in Nat
  BY <1>2, <1>3, <1>4 DEF T
<1>8. intervalOf(v).start = least(T) /\ intervalOf(v).end = greatest(T)
      /\ intervalOf(v).crosses_call = spansCall(least(T), greatest(T))
  BY <1>5
<1>9. spansCall(least(T), greatest(T)) \in BOOLEAN
  BY DEF spansCall
<1>10. intervalOf(v) \in Intervals
  BY <1>5, <1>6, <1>7, <1>9 DEF Intervals
<1>11. ASSUME NEW q \in touched(v), NEW at \in call_positions, p < at, at < q
       PROVE  intervalOf(v).crosses_call
  <2>1. at \in Nat
    <3>1. PICK k \in BlockIds : \E i \in InstIds(k) : at = inst_position(k, i)
      BY DEF call_positions
    <3>2. PICK i \in InstIds(k) : at = inst_position(k, i)
      BY <3>1
    <3> QED BY <3>2, InstPosition
  <2>2. q \in T /\ q \in Nat
    BY <1>2 DEF T
  <2>3. least(T) < at /\ at < greatest(T)
    BY <1>3, <1>4, <1>7, <1>11, <2>1, <2>2
  <2> QED BY <1>8, <2>3 DEF spansCall
<1> QED BY <1>3, <1>4, <1>7, <1>8, <1>10, <1>11

LEMMA IntervalTypes ==
  ASSUME LiveTypes, NEW v \in Vregs
  PROVE  intervalOf(v) \in Intervals
<1>1. CASE touched(v) = {}
  <2>1. intervalOf(v) = unused(v) /\ func.reg_class[v] \in RegClasses
    BY <1>1, FunctionShape DEF intervalOf
  <2> QED BY <2>1 DEF unused, Intervals, INT32_MAX
<1>2. CASE touched(v) # {}
  BY <1>2, IntervalHolds
<1> QED BY <1>1, <1>2
-----------------------------------------------------------------------------
(* What touches a vreg around an instruction                               *)

LEMMA Touches ==
  ASSUME NEW v, NEW k \in BlockIds
  PROVE  /\ \A i \in InstIds(k) : v \in inst(k, i).use \/ v = inst(k, i).dst => inst_position(k, i) \in touched(v)
         /\ v \in live_in[k] => block_start[k] \in touched(v)
         /\ v \in live_out[k] \/ v \in block(k).use => block_end(k) \in touched(v)
         /\ v \in func.params => 0 \in touched(v)
<1>1. ASSUME NEW i \in InstIds(k), v \in inst(k, i).use \/ v = inst(k, i).dst
      PROVE  inst_position(k, i) \in touched(v)
  <2>1. inst_position(k, i) \in {inst_position(k, j) : j \in {j \in InstIds(k) : v \in inst(k, j).use \/ v = inst(k, j).dst}}
    BY <1>1
  <2> QED BY <2>1 DEF touched
<1> QED BY <1>1 DEF touched

\* A vreg that is live after an instruction is touched after it,
LEMMA TouchedAfter ==
  ASSUME LiveInv, phase # "live", NEW k \in BlockIds, NEW i \in InstIds(k), NEW v \in Vregs, liveAfter(k, i, v)
  PROVE  \E q \in touched(v) : inst_position(k, i) < q
<1>1. LiveTypes /\ Len(block(k).insts) \in Nat /\ InstIds(k) = 1..Len(block(k).insts) /\ block(k).succ \subseteq BlockIds
  BY FunctionShape DEF LiveInv
<1>2. CASE \E j \in (i+1)..Len(block(k).insts) : v \in inst(k, j).use
  <2>1. PICK j \in (i+1)..Len(block(k).insts) : v \in inst(k, j).use
    BY <1>2
  <2>2. j \in InstIds(k) /\ i < j
    BY <1>1
  <2> QED BY <1>1, <2>1, <2>2, Touches, InstPosition
<1>3. CASE v \in block(k).use \/ \E s \in block(k).succ : livePath(s, v)
  <2>1. ASSUME NEW s \in block(k).succ, livePath(s, v) PROVE v \in live_out[k]
    <3>1. s \in BlockIds /\ v \in live_in[s]
      BY <1>1, <2>1, PathFound
    <3>2. live_out[k] = fromSuccessors(k)
      BY DEF LiveInv, EquationsHold
    <3> QED BY <3>1, <3>2 DEF fromSuccessors
  <2>2. block_end(k) \in touched(v)
    BY <1>3, <2>1, Touches
  <2> QED BY <1>1, <2>2, InstPosition
<1> QED BY <1>2, <1>3 DEF liveAfter

\* and unless the instruction writes it, it comes into the block or is written earlier in it.
LEMMA LiveSince ==
  ASSUME LiveInv, phase # "live", NEW k \in BlockIds, NEW i \in InstIds(k), NEW v \in Vregs, liveAfter(k, i, v),
         v # inst(k, i).dst
  PROVE  v \in live_in[k] \/ \E j \in InstIds(k) : j < i /\ v = inst(k, j).dst
<1> SUFFICES ASSUME \A j \in InstIds(k) : j < i => v # inst(k, j).dst PROVE v \in live_in[k]
  OBVIOUS
<1>1. LiveTypes /\ Len(block(k).insts) \in Nat /\ InstIds(k) = 1..Len(block(k).insts) /\ block(k).succ \subseteq BlockIds
  BY FunctionShape DEF LiveInv
<1>2. \A j \in 1..i : inst(k, j).dst # v
  BY <1>1
<1>3. /\ live_out[k] = fromSuccessors(k)
      /\ live_in[k] = uses(k) \cup (live_out[k] \ defs(k))
  BY DEF LiveInv, EquationsHold
<1>4. CASE \E j \in (i+1)..Len(block(k).insts) : v \in inst(k, j).use /\ \A h \in (i+1)..(j-1) : inst(k, h).dst # v
  <2>1. PICK j \in (i+1)..Len(block(k).insts) : v \in inst(k, j).use /\ \A h \in (i+1)..(j-1) : inst(k, h).dst # v
    BY <1>4
  <2>2. j \in InstIds(k) /\ \A h \in 1..(j-1) : h \in 1..i \/ h \in (i+1)..(j-1)
    BY <1>1
  <2>3. \A h \in 1..(j-1) : inst(k, h).dst # v
    BY <1>2, <2>1, <2>2
  <2>4. v \in uses(k)
    BY <2>1, <2>2, <2>3 DEF uses
  <2> QED BY <1>3, <2>4
<1>5. CASE /\ \A h \in (i+1)..Len(block(k).insts) : inst(k, h).dst # v
           /\ v \in block(k).use \/ \E s \in block(k).succ : livePath(s, v)
  <2>1. \A h \in InstIds(k) : h \in 1..i \/ h \in (i+1)..Len(block(k).insts)
    BY <1>1
  <2>2. v \notin defs(k)
    BY <1>2, <1>5, <2>1 DEF defs
  <2>3. CASE v \in block(k).use
    BY <1>3, <2>2, <2>3 DEF uses
  <2>4. CASE \E s \in block(k).succ : livePath(s, v)
    <3>1. PICK s \in block(k).succ : livePath(s, v)
      BY <2>4
    <3>2. s \in BlockIds /\ v \in live_in[s]
      BY <1>1, <3>1, PathFound
    <3> QED BY <1>3, <2>2, <3>2 DEF fromSuccessors
  <2> QED BY <1>5, <2>3, <2>4
<1> QED BY <1>4, <1>5 DEF liveAfter

\* What comes into a block is touched before it: it comes out of an earlier one, or it is a parameter.
LEMMA TouchedEarlier ==
  ASSUME LiveInv, phase # "live", func \in IrFunctions, live_in[1] \subseteq func.params,
         NEW k \in BlockIds, NEW v \in live_in[k]
  PROVE  \E q \in touched(v) : q < block_start[k]
<1>1. LiveTypes /\ block_count \in Nat \ {0} /\ BlockIds = 1..block_count
  BY FunctionShape DEF LiveInv
<1>2. CASE k = 1
  BY <1>1, <1>2, Touches, StartSteps
<1>3. CASE k # 1
  <2>1. k \in 2..Len(func.blocks)
    BY <1>1, <1>3 DEF block_count
  <2>2. PICK j \in 1..(k-1) : k \in block(j).succ
    BY <2>1, LayoutAssumption DEF block
  <2>3. j \in BlockIds /\ j < k
    BY <1>1
  <2>4. live_out[j] = fromSuccessors(j)
    BY <2>3 DEF LiveInv, EquationsHold
  <2>5. v \in live_out[j]
    BY <2>2, <2>4 DEF fromSuccessors
  <2> QED BY <1>1, <2>3, <2>5, Touches, BlocksInOrder
<1> QED BY <1>2, <1>3
-----------------------------------------------------------------------------
(* The allocation                                                          *)

\* Nothing has a place before the scan
NothingBefore == phase \in {"live", "intervals", "rejected"} => nothingLocated

\* What the scan works on, and what is left when it has ended, are the intervals of this function
Scanned == phase \in {"scan", "done"} => ScanInv /\ intervals = [v \in Vregs |-> intervalOf(v)]

\* ir_verify_function let the function through
Verified == phase \notin {"live", "rejected"} => live_in[1] \subseteq func.params

Saved == phase = "done" => used_callee_saved = {locations[v].reg : v \in inRegs} \cap CalleeSaved

AllocInv == /\ phase \in {"live", "rejected", "intervals", "scan", "done"} /\ func \in IrFunctions
            /\ NothingBefore /\ Scanned /\ Verified /\ Saved

LEMMA SameIntervals ==
  ASSUME UNCHANGED liveVars
  PROVE  \A v : intervalOf(v)' = intervalOf(v)
<1>1. func' = func /\ live_in' = live_in /\ live_out' = live_out
  BY DEF liveVars
<1>2. BlockIds' = BlockIds /\ \A k : block(k)' = block(k)
  BY <1>1, SameFunction
<1>3. \A k : InstIds(k)' = InstIds(k) /\ \A i : inst(k, i)' = inst(k, i)
  BY <1>2 DEF InstIds, inst
<1>4. block_start' = block_start
  BY <1>2 DEF block_start
<1>5. \A k : block_end(k)' = block_end(k) /\ \A i : inst_position(k, i)' = inst_position(k, i)
  BY <1>2, <1>4 DEF block_end, inst_position
<1>6. call_positions' = call_positions
  BY <1>2, <1>3, <1>5 DEF call_positions
<1>7. \A v : touched(v)' = touched(v)
  BY <1>1, <1>2, <1>3, <1>4, <1>5 DEF touched
<1>8. \A v : unused(v)' = unused(v)
  BY <1>1 DEF unused
<1> QED BY <1>1, <1>6, <1>7, <1>8 DEF intervalOf, spansCall

LEMMA BuildKeeps ==
  ASSUME LiveInv, AllocInv, buildIntervals
  PROVE  AllocInv'
<1>1. /\ phase = "intervals" /\ phase' = "scan" /\ UNCHANGED liveVars
      /\ intervals' = [v \in Vregs |-> intervalOf(v)] /\ todo' = toAllocate(intervals')
      /\ UNCHANGED <<locations, spill_slot_count, used_callee_saved, active, reg_free>>
  BY DEF buildIntervals
<1>2. func' = func /\ live_in' = live_in /\ \A v : intervalOf(v)' = intervalOf(v)
  BY <1>1, SameIntervals DEF liveVars
<1>3. intervals' = [v \in Vregs |-> intervalOf(v)']
  BY <1>1, <1>2
<1>4. intervals' \in [Vregs -> Intervals]
  BY <1>1, IntervalTypes DEF LiveInv
<1>5. /\ locations' = [v \in Vregs |-> none] /\ spill_slot_count' = 0 /\ used_callee_saved' = {}
      /\ active' = {} /\ reg_free' = Regs
  BY <1>1 DEF AllocInv, NothingBefore, nothingLocated
<1>6. inRegs' = {} /\ inSlots' = {}
  BY <1>5 DEF inRegs, inSlots, none
<1>7. ScanTypeOK'
  BY <1>1, <1>4, <1>5 DEF ScanTypeOK, Locations, none, toAllocate
<1>8. ScanInv'
  BY <1>5, <1>6, <1>7 DEF ScanInv, ScanTypeOK, ActiveHold, OverIsOver, TodoIsNone, NoSharedRegister,
                          RegisterFits, SpillSlotsApart, none
<1>9. NothingBefore' /\ Scanned' /\ Verified' /\ Saved'
  BY <1>1, <1>2, <1>3, <1>8 DEF AllocInv, NothingBefore, Scanned, Verified, Saved
<1> QED BY <1>1, <1>2, <1>9 DEF AllocInv

LEMMA AllocKeeps == LiveInv /\ AllocInv /\ [Next]_vars => AllocInv'
<1> SUFFICES ASSUME LiveInv, AllocInv, [Next]_vars PROVE AllocInv'
  OBVIOUS
<1>1. CASE LiveStep /\ UNCHANGED scanVars
  <2>1. /\ phase = "live" /\ phase' \in {"live", "intervals", "rejected"} /\ func' = func
        /\ nothingLocated
    BY <1>1 DEF LiveStep, sweep, sweepAgain, sweepDone, liveVars, AllocInv, NothingBefore
  <2>2. nothingLocated'
    BY <1>1, <2>1 DEF nothingLocated, scanVars
  <2>3. Verified'
    <3>1. CASE phase' = "intervals"
      BY <1>1, <3>1 DEF LiveStep, sweep, sweepAgain, sweepDone, liveVars, Verified
    <3>2. CASE phase' \in {"live", "rejected"}
      BY <3>2 DEF Verified
    <3> QED BY <2>1, <3>1, <3>2
  <2> QED BY <2>1, <2>2, <2>3 DEF AllocInv, NothingBefore, Scanned, Saved
<1>2. CASE buildIntervals
  BY <1>2, BuildKeeps
<1>3. CASE ScanStep /\ UNCHANGED liveVars
  <2>1. /\ phase = "scan" /\ phase' \in {"scan", "done"} /\ intervals' = intervals
    BY <1>3 DEF ScanStep, Scan, takeFree, takeVictim, spillSelf, finish
  <2>2. func' = func /\ live_in' = live_in /\ \A v : intervalOf(v)' = intervalOf(v)
    BY <1>3, SameIntervals DEF liveVars
  <2>3. Scanned'
    BY <1>3, <2>1, <2>2, ScanKeeps DEF AllocInv, Scanned
  <2>4. Saved'
    <3>1. CASE finish
      BY <3>1 DEF finish, Saved, inRegs
    <3>2. CASE \E v \in Vregs : Scan(v)
      BY <3>2 DEF Scan, takeFree, takeVictim, spillSelf, Saved
    <3> QED BY <1>3, <3>1, <3>2 DEF ScanStep
  <2> QED BY <2>1, <2>2, <2>3, <2>4 DEF AllocInv, NothingBefore, Verified
<1>4. CASE UNCHANGED vars
  <2>1. UNCHANGED liveVars /\ phase' = phase /\ UNCHANGED scanVars
    BY <1>4 DEF vars
  <2>2. func' = func /\ live_in' = live_in /\ \A v : intervalOf(v)' = intervalOf(v)
    BY <2>1, SameIntervals DEF liveVars
  <2>3. Scanned'
    BY <2>1, <2>2, ScanKeeps DEF AllocInv, Scanned, scanVars
  <2>4. NothingBefore' /\ Saved'
    BY <2>1 DEF AllocInv, NothingBefore, Saved, nothingLocated, inRegs, scanVars
  <2> QED BY <2>1, <2>2, <2>3, <2>4 DEF AllocInv, Verified
<1> QED BY <1>1, <1>2, <1>3, <1>4 DEF Next

\* Two vregs that are touched around the same position have registers of their own.
LEMMA OwnRegisters ==
  ASSUME LiveTypes, AllocInv, phase = "done", NEW v \in inRegs, NEW w \in inRegs, v # w,
         NEW p \in touched(v), NEW q1 \in touched(w), NEW q2 \in touched(w), q1 <= p, p <= q2
  PROVE  locations[v].reg # locations[w].reg
<1>1. v \in Vregs /\ w \in Vregs
  BY DEF inRegs
<1>2. /\ intervalOf(v).start <= p /\ p <= intervalOf(v).end
      /\ p \in Nat /\ intervalOf(v).start \in Nat /\ intervalOf(v).end \in Nat
  BY <1>1, IntervalHolds
<1>3. /\ intervalOf(w).start <= q1 /\ q2 <= intervalOf(w).end
      /\ q1 \in Nat /\ q2 \in Nat /\ intervalOf(w).start \in Nat /\ intervalOf(w).end \in Nat
  BY <1>1, IntervalHolds
<1>4. ~(intervalOf(v).end < intervalOf(w).start) /\ ~(intervalOf(w).end < intervalOf(v).start)
  BY <1>2, <1>3
<1>5. NoSharedRegister /\ intervals[v] = intervalOf(v) /\ intervals[w] = intervalOf(w)
  BY <1>1 DEF AllocInv, Scanned, ScanInv
<1> QED BY <1>4, <1>5 DEF NoSharedRegister, start, end

LEMMA DestinationApart ==
  ASSUME LiveInv, AllocInv, phase = "done", NEW k \in BlockIds, NEW i \in InstIds(k), NEW v \in inRegs,
         inst(k, i).dst \in inRegs \ {v}, liveAfter(k, i, v) \/ v \in inst(k, i).use
  PROVE  locations[inst(k, i).dst].reg # locations[v].reg
<1>1. LiveTypes /\ v \in Vregs
  BY DEF LiveInv, inRegs
<1>2. inst_position(k, i) \in touched(inst(k, i).dst) /\ inst_position(k, i) \in Nat
  BY <1>1, Touches, InstPosition
<1>3. CASE v \in inst(k, i).use
  <2>1. inst_position(k, i) \in touched(v)
    BY <1>3, Touches
  <2> QED BY <1>1, <1>2, <2>1, OwnRegisters
<1>4. CASE liveAfter(k, i, v)
  <2>1. PICK after \in touched(v) : inst_position(k, i) < after
    BY <1>1, <1>4, TouchedAfter
  <2>2. PICK before \in touched(v) : before <= inst_position(k, i)
    <3>1. CASE v \in live_in[k]
      BY <1>1, <3>1, Touches, InstPosition
    <3>2. CASE \E j \in InstIds(k) : j < i /\ v = inst(k, j).dst
      <4>1. PICK j \in InstIds(k) : j < i /\ v = inst(k, j).dst
        BY <3>2
      <4>2. inst_position(k, j) < inst_position(k, i) /\ inst_position(k, j) \in Nat
        BY <1>1, <4>1, InstPosition
      <4> QED BY <1>2, <4>1, <4>2, Touches
    <3> QED BY <1>1, <1>4, <3>1, <3>2, LiveSince
  <2>3. before \in Nat /\ after \in Nat
    BY <1>1, IntervalHolds
  <2>4. inst_position(k, i) <= after
    BY <1>2, <2>1, <2>3
  <2> QED BY <1>1, <1>2, <2>1, <2>2, <2>4, OwnRegisters
<1> QED BY <1>3, <1>4

LEMMA CallKeeps ==
  ASSUME LiveInv, AllocInv, phase = "done", NEW k \in BlockIds, NEW i \in InstIds(k), NEW v \in inRegs,
         inst(k, i).call, v # inst(k, i).dst, liveAfter(k, i, v)
  PROVE  locations[v].reg \in CalleeSaved /\ locations[v].reg \in used_callee_saved
<1>1. LiveTypes /\ v \in Vregs
  BY DEF LiveInv, inRegs
<1>2. inst_position(k, i) \in call_positions /\ inst_position(k, i) \in Nat
  <2>1. inst_position(k, i) \in {inst_position(k, j) : j \in {j \in InstIds(k) : inst(k, j).call}}
    OBVIOUS
  <2> QED BY <1>1, <2>1, InstPosition DEF call_positions
<1>3. PICK after \in touched(v) : inst_position(k, i) < after
  BY <1>1, TouchedAfter
<1>4. PICK before \in touched(v) : before < inst_position(k, i)
  <2>1. CASE v \in live_in[k]
    <3>1. PICK q \in touched(v) : q < block_start[k]
      BY <2>1, TouchedEarlier DEF AllocInv, Verified
    <3>2. q \in Nat /\ block_start[k] \in Nat /\ block_start[k] <= inst_position(k, i)
      BY <1>1, IntervalHolds, Starts, InstPosition
    <3> QED BY <1>2, <3>1, <3>2
  <2>2. CASE \E j \in InstIds(k) : j < i /\ v = inst(k, j).dst
    BY <1>1, <2>2, Touches, InstPosition
  <2> QED BY <1>1, <2>1, <2>2, LiveSince
<1>5. intervalOf(v).crosses_call
  BY <1>1, <1>2, <1>3, <1>4, IntervalHolds
<1>6. RegisterFits /\ intervals[v] = intervalOf(v)
  BY <1>1 DEF AllocInv, Scanned, ScanInv
<1>7. locations[v].reg \in CalleeSaved
  BY <1>5, <1>6 DEF RegisterFits
<1> QED BY <1>7 DEF AllocInv, Saved

\* For every function and every target: when the allocation is done, no
\* instruction overwrites a value that is read later or one of its operands,
\* no call changes a value that is read after it, and no two parameters arrive
\* in the same register.
THEOREM ValuesSurviveAlways == Spec => []ValuesSurvive
<1>1. Init => AllocInv
  BY DEF Init, LiveInit, AllocInv, NothingBefore, Scanned, Verified, Saved
<1>2. LiveInv /\ AllocInv => ValuesSurvive
  <2> SUFFICES ASSUME LiveInv, AllocInv, phase = "done"
               PROVE  /\ \A k \in BlockIds : \A i \in InstIds(k) : \A v \in inRegs :
                           /\ inst(k, i).dst \in inRegs \ {v} /\ (liveAfter(k, i, v) \/ v \in inst(k, i).use)
                                 => locations[inst(k, i).dst].reg # locations[v].reg
                           /\ inst(k, i).call /\ v # inst(k, i).dst /\ liveAfter(k, i, v)
                                 => locations[v].reg \in CalleeSaved /\ locations[v].reg \in used_callee_saved
                      /\ \A v, w \in inRegs \cap func.params : v # w => locations[v].reg # locations[w].reg
    BY DEF ValuesSurvive
  <2>1. ASSUME NEW v \in inRegs \cap func.params, NEW w \in inRegs \cap func.params, v # w
        PROVE  locations[v].reg # locations[w].reg
    <3>1. LiveTypes /\ 1 \in BlockIds
      BY FunctionShape DEF LiveInv
    <3>2. 0 \in touched(v) /\ 0 \in touched(w)
      BY <3>1, Touches
    <3> QED BY <2>1, <3>1, <3>2, OwnRegisters
  <2> QED BY <2>1, DestinationApart, CallKeeps
<1> QED BY LiveInitially, LiveKeeps, <1>1, AllocKeeps, <1>2, PTL DEF Spec
=============================================================================
