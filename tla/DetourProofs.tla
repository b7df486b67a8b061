---------------------------- MODULE DetourProofs ----------------------------
(***************************************************************************)
(* Theorems about a detour, for every prologue, replacement, override and  *)
(* placement.  The plan adds up bounds before there is an address; what is *)
(* carried out later is kept within it by two facts per target: that no    *)
(* relocation costs more than the analysis says, and that the smallest     *)
(* patch and the bound of the jump back agree with the emitter.  Along the *)
(* loops, the partial sums of the plan bound the offsets of the relocator. *)
(***************************************************************************)
EXTENDS Detour, RelocateProofs

RealModes == Modes \ VmModes

-----------------------------------------------------------------------------
(***************************************************************************)
(* What an emission may cost.                                              *)
(***************************************************************************)

\* A result that takes at most `max' bytes, and that only a capacity below
\* `max' is too small for.
BoundedBy(r, max, left) ==
    /\ r.status = "OK" => r.size <= max
    /\ r.status = "OUTPUT_TOO_SMALL" => left < max

\* A result made of whole instructions.
WholeUnits(m, r) == r.status = "OK" => r.size % PaddingUnit(m) = 0

\* Whole units add up.
LEMMA UnitSum ==
    ASSUME NEW m, NEW a \in Int, NEW b \in Int,
           a % PaddingUnit(m) = 0, b % PaddingUnit(m) = 0
    PROVE  (a + b) % PaddingUnit(m) = 0 /\ (a - b) % PaddingUnit(m) = 0
<1>1. PaddingUnit(m) \in {1, 2, 4}
  BY DEF PaddingUnit
<1>2. CASE PaddingUnit(m) = 1
  BY <1>2
<1>3. CASE PaddingUnit(m) = 2
  BY <1>3
<1>4. CASE PaddingUnit(m) = 4
  BY <1>4
<1> QED BY <1>1, <1>2, <1>3, <1>4

\* Every instruction of a processor is made of them.
LEMMA UnitSize ==
    ASSUME NEW m \in RealModes, NEW inst \in Inst, Decodable(m, inst)
    PROVE  inst.size \in Nat /\ inst.size > 0 /\ inst.size % PaddingUnit(m) = 0
<1>1. inst.size \in Nat /\ inst.size > 0
  BY DEF Inst, MaxInstBytes
<1>2. PaddingUnit(m) = IF m \in X86Modes THEN 1 ELSE IF m = "thumb" THEN 2 ELSE 4
  BY DEF PaddingUnit
<1>3. \/ m \in X86Modes
      \/ m = "thumb" /\ inst.size \in {2, 4}
      \/ m \in {"a32", "a64"} /\ inst.size = 4
  BY DEF Decodable, RealModes, Modes
<1> QED BY <1>1, <1>2, <1>3

\* What an analysis returns.
LEMMA AnalysisType ==
    ASSUME NEW m \in Modes, NEW inst \in Inst
    PROVE  Analyze(m, inst).max \in Nat /\ Analyze(m, inst).hazards \in SUBSET Hazards
<1>1. inst.size \in Nat
  BY DEF Inst, MaxInstBytes
<1> QED BY <1>1
        DEF Analyze, X86Analyze, ArmAnalyze, A64Analyze, VmAnalyze, BpfAnalyze, WasmAnalyze,
            ControlHazards, Hazards

\* The common ways out of an emitter.
LEMMA WrittenCosts ==
    ASSUME NEW n \in Nat, NEW clobbers, NEW items, NEW left \in Nat
    PROVE  /\ Written(n, clobbers, items, left).size = n
           /\ Written(n, clobbers, items, left).clobbers = clobbers
           /\ Written(n, clobbers, items, left).status
                = IF left < n THEN "OUTPUT_TOO_SMALL" ELSE "OK"
  BY DEF Written

\* The fields of a refusal.
LEMMA RefusedCosts ==
    ASSUME NEW s, NEW n
    PROVE  Refused(s, n).status = s /\ Refused(s, n).size = n /\ Refused(s, n).clobbers = {}
  BY DEF Refused

\* The relative and the absolute transfer of each target.
LEMMA X86RelCosts ==
    ASSUME NEW m \in X86Modes, NEW isCall, NEW from \in Int, NEW to \in Int, NEW left \in Nat
    PROVE  LET r == X86EmitRel(m, isCall, from, to, left)
               n == X86DirectSize(m)
           IN  IF X86Fits(m, to - (from + n))
               THEN /\ r.size = n /\ r.clobbers = {}
                    /\ r.status = IF left < n THEN "OUTPUT_TOO_SMALL" ELSE "OK"
               ELSE r.status = "BRANCH_OUT_OF_RANGE"
  BY DEF X86EmitRel, X86DirectSize, Written, Refused

\* What the direct branches cost, and when they are emitted: for ARM,
LEMMA ArmRelCosts ==
    ASSUME NEW m \in ArmModes, NEW isCall \in BOOLEAN, NEW from \in Int, NEW to \in Int,
           NEW left \in Nat
    PROVE  LET r == ArmEmitRel(m, isCall, from, to, left)
               n == IF m = "a32" THEN 4 ELSE 2
               fits == IF m = "a32" THEN FitsWords24(to - (from + 8))
                       ELSE ~isCall /\ FitsThumb(to - (from + 4))
           IN  IF fits
               THEN /\ r.size = n /\ r.clobbers = {}
                    /\ r.status = IF left < n THEN "OUTPUT_TOO_SMALL" ELSE "OK"
               ELSE r.status = "BRANCH_OUT_OF_RANGE"
  BY DEF ArmEmitRel, Written, Refused

\* for AArch64.
LEMMA A64RelCosts ==
    ASSUME NEW isCall, NEW from \in Int, NEW to \in Int, NEW left \in Nat
    PROVE  LET r == A64EmitRel(isCall, from, to, left)
           IN  IF FitsWords26(to - from)
               THEN /\ r.size = 4 /\ r.clobbers = {}
                    /\ r.status = IF left < 4 THEN "OUTPUT_TOO_SMALL" ELSE "OK"
               ELSE r.status = "BRANCH_OUT_OF_RANGE"
  BY DEF A64EmitRel, Written, Refused

\* What the relocation of an instruction costs at most is what the analysis says, unless
\* that is known to be less: for x86,
LEMMA X86RelocationCosts ==
    ASSUME NEW m \in X86Modes, NEW inst \in Inst, NEW where \in Int, NEW left \in Nat,
           ~Underestimated(inst)
    PROVE  BoundedBy(X86Relocate(m, inst, where, left), X86Analyze(inst).max, left)
<1> DEFINE to     == inst.target
           isCall == inst.cls = "directCall"
           moved  == inst.pcrel /\ inst.operand
           max    == X86Analyze(inst).max
<1>1. inst.size \in Nat /\ to \in Int /\ isCall \in BOOLEAN
  BY DEF Inst, MaxInstBytes
<1>2. max = IF ~moved THEN inst.size ELSE IF inst.cls = "condBranch" THEN 16 ELSE 14
  BY DEF X86Analyze
<1>3. X86DirectSize(m) \in {3, 5}
  BY DEF X86DirectSize
<1> HIDE DEF max
<1>4. CASE inst.cls \in {"directCall", "directBranch"}
  <2>1. inst.operand => max = 14
    BY <1>2, <1>4 DEF Underestimated
  <2>2. BoundedBy(X86EmitRel(m, isCall, where, to, left), 14, left)
    BY <1>1, <1>3, X86RelCosts DEF BoundedBy
  <2>3. BoundedBy(X86EmitAbs(isCall, to, left), 14, left)
    BY WrittenCosts DEF X86EmitAbs, BoundedBy
  <2>4. BoundedBy(Refused("UNSUPPORTED_RELOCATION", 0), max, left)
    BY RefusedCosts DEF BoundedBy
  <2>5. X86Relocate(m, inst, where, left) = X86RelocateBranch(m, inst, where, left)
    BY <1>4 DEF X86Relocate
  <2>6. \/ X86RelocateBranch(m, inst, where, left) = Refused("UNSUPPORTED_RELOCATION", 0)
        \/ /\ inst.operand
           /\ \/ X86RelocateBranch(m, inst, where, left) = X86EmitRel(m, isCall, where, to, left)
              \/ X86RelocateBranch(m, inst, where, left) = X86EmitAbs(isCall, to, left)
    BY DEF X86RelocateBranch
  <2> QED BY <2>1, <2>2, <2>3, <2>4, <2>5, <2>6 DEF max
<1>5. CASE inst.cls = "condBranch"
  <2>1. inst.operand => max = 16
    BY <1>2, <1>5 DEF Underestimated
  <2>2. BoundedBy(X86EmitJcc(inst, where, to, left), 16, left)
    BY WrittenCosts, RefusedCosts DEF X86EmitJcc, BoundedBy
  <2>3. BoundedBy(X86ExpandJcc(inst, to, left), 16, left)
    BY WrittenCosts DEF X86ExpandJcc, BoundedBy
  <2>4. BoundedBy(Refused("UNSUPPORTED_RELOCATION", 0), max, left)
    BY RefusedCosts DEF BoundedBy
  <2>5. X86Relocate(m, inst, where, left) = X86RelocateCond(m, inst, where, left)
    BY <1>5 DEF X86Relocate
  <2>6. \/ X86RelocateCond(m, inst, where, left) = Refused("UNSUPPORTED_RELOCATION", 0)
        \/ /\ inst.operand
           /\ \/ X86RelocateCond(m, inst, where, left) = X86EmitJcc(inst, where, to, left)
              \/ X86RelocateCond(m, inst, where, left) = X86ExpandJcc(inst, to, left)
    BY DEF X86RelocateCond
  <2> QED BY <2>1, <2>2, <2>3, <2>4, <2>5, <2>6 DEF max
<1>6. CASE inst.cls \notin {"directCall", "directBranch", "condBranch"}
  <2>1. BoundedBy(X86RelocateRip(inst, where, left), 14, left)
    BY <1>1, WrittenCosts, RefusedCosts DEF X86RelocateRip, BoundedBy, Underestimated
  <2>2. ~moved => max = inst.size
    BY <1>2
  <2>3. moved => max = 14
    BY <1>2, <1>6
  <2>4. BoundedBy(Written(inst.size, {}, {Item("copy", 0, inst.size, 0, inst)}, left),
                  inst.size, left)
    BY <1>1, WrittenCosts DEF BoundedBy
  <2>5. X86Relocate(m, inst, where, left)
          = IF moved THEN X86RelocateRip(inst, where, left)
            ELSE Written(inst.size, {}, {Item("copy", 0, inst.size, 0, inst)}, left)
    BY <1>6 DEF X86Relocate
  <2> QED BY <2>1, <2>2, <2>3, <2>4, <2>5 DEF max
<1> QED BY <1>4, <1>5, <1>6 DEF max

\* for ARM,
LEMMA ArmRelocationCosts ==
    ASSUME NEW m \in ArmModes, NEW inst \in Inst, Decodable(m, inst),
           NEW where \in Int, NEW left \in Nat
    PROVE  /\ WholeUnits(m, ArmRelocate(m, inst, where, left))
           /\ ~Underestimated(inst) =>
                 BoundedBy(ArmRelocate(m, inst, where, left), ArmAnalyze(inst).max, left)
<1> DEFINE to     == inst.target
           isCall == inst.cls = "directCall"
           max    == ArmAnalyze(inst).max
<1>1. inst.size \in Nat /\ to \in Int /\ isCall \in BOOLEAN
  BY DEF Inst, MaxInstBytes
<1>2. max = IF inst.pcrel /\ inst.operand THEN 12 ELSE inst.size
  BY DEF ArmAnalyze
<1>3. PaddingUnit(m) = IF m = "thumb" THEN 2 ELSE 4
  BY DEF PaddingUnit, ArmModes, X86Modes
<1>4. /\ m = "a32" => inst.size = 4
      /\ m = "thumb" => inst.size \in {2, 4}
      /\ inst.cls \in {"directBranch", "directCall"} => inst.operand
  BY DEF Decodable, ArmModes
<1> HIDE DEF max
<1>5. \A s \in Statuses \ {"OK", "OUTPUT_TOO_SMALL"} :
         WholeUnits(m, Refused(s, 0)) /\ BoundedBy(Refused(s, 0), max, left)
  BY RefusedCosts DEF BoundedBy, WholeUnits
<1>6. CASE inst.cls = "it"
  BY <1>5, <1>6 DEF ArmRelocate, Statuses, max
<1>7. CASE inst.cls \in {"directBranch", "directCall"}
  <2> DEFINE direct == ArmEmitRel(m, isCall, where, to, left)
             abs    == ArmEmitAbsA32(isCall, to, left)
  <2>1. ArmRelocate(m, inst, where, left) = ArmRelocateBranch(m, inst, where, left)
    BY <1>7 DEF ArmRelocate
  <2>2. ~Underestimated(inst) => max = 12
    BY <1>2, <1>4, <1>7 DEF Underestimated
  <2>3. BoundedBy(direct, 12, left) /\ WholeUnits(m, direct)
    <3>1. \/ direct.status = "BRANCH_OUT_OF_RANGE"
          \/ LET n == IF m = "a32" THEN 4 ELSE 2
             IN  /\ direct.size = n
                 /\ direct.status = (IF left < n THEN "OUTPUT_TOO_SMALL" ELSE "OK")
      <4> HIDE DEF isCall, to
      <4> QED BY <1>1, ArmRelCosts
    <3> HIDE DEF direct
    <3> QED BY <1>3, <3>1 DEF BoundedBy, WholeUnits, ArmModes
  <2>4. BoundedBy(abs, 12, left) /\ (m = "a32" => WholeUnits(m, abs))
    BY <1>1, <1>3, WrittenCosts DEF ArmEmitAbsA32, BoundedBy, WholeUnits
  <2> HIDE DEF direct, abs
  <2>5. ArmRelocateBranch(m, inst, where, left) \in {direct, abs}
        /\ (m # "a32" => ArmRelocateBranch(m, inst, where, left) = direct)
    BY DEF ArmRelocateBranch, direct, abs
  <2> QED BY <2>1, <2>2, <2>3, <2>4, <2>5 DEF max
<1>8. CASE inst.cls \notin {"it", "directBranch", "directCall"}
  <2> DEFINE copy == Written(inst.size, {}, {Item("copy", 0, inst.size, 0, inst)}, left)
  <2>1. WholeUnits(m, copy)
    BY <1>1, <1>3, <1>4, WrittenCosts DEF WholeUnits, ArmModes
  <2>2. ~inst.pcrel => BoundedBy(copy, max, left)
    BY <1>1, <1>2, WrittenCosts DEF BoundedBy
  <2>3. ArmRelocate(m, inst, where, left)
          = IF inst.pcrel THEN Refused("UNSUPPORTED_RELOCATION", 0) ELSE copy
    BY <1>8 DEF ArmRelocate
  <2> HIDE DEF copy
  <2> QED BY <1>5, <2>1, <2>2, <2>3 DEF Statuses, max
<1> QED BY <1>6, <1>7, <1>8 DEF max

\* for AArch64.
LEMMA A64RelocationCosts ==
    ASSUME NEW inst \in Inst, Decodable("a64", inst), NEW where \in Int, NEW left \in Nat
    PROVE  /\ WholeUnits("a64", A64Relocate(inst, where, left))
           /\ ~Underestimated(inst) =>
                 BoundedBy(A64Relocate(inst, where, left), A64Analyze(inst).max, left)
<1> DEFINE to     == inst.target
           isCall == inst.cls = "directCall"
           moved  == inst.pcrel /\ inst.operand
           max    == A64Analyze(inst).max
           r      == A64Relocate(inst, where, left)
<1>1. inst.size = 4 /\ to \in Int /\ isCall \in BOOLEAN
  BY DEF Inst, Decodable
<1>2. max = IF moved /\ inst.cls = "condBranch" THEN 20
            ELSE IF moved /\ inst.cls \in {"directBranch", "directCall"} THEN 16
            ELSE 4
  BY <1>1 DEF A64Analyze
<1>3. PaddingUnit("a64") = 4
  BY DEF PaddingUnit, X86Modes
<1> HIDE DEF max
<1>4. CASE inst.pcrel /\ inst.enc = "b"
  <2> DEFINE direct == A64EmitRel(isCall, where, to, left)
             abs    == A64EmitAbs(isCall, to, left)
             none   == Refused("UNSUPPORTED_RELOCATION", 0)
  <2>1. inst.operand => max = 16
    BY <1>2, <1>4 DEF Decodable
  <2>2. BoundedBy(direct, 16, left) /\ WholeUnits("a64", direct)
    <3>1. \/ direct.status = "BRANCH_OUT_OF_RANGE"
          \/ direct.size = 4 /\ direct.status = (IF left < 4 THEN "OUTPUT_TOO_SMALL" ELSE "OK")
      <4> HIDE DEF isCall, to
      <4> QED BY <1>1, A64RelCosts
    <3> HIDE DEF direct
    <3>2. 4 % 4 = 0
      OBVIOUS
    <3> QED BY <1>3, <3>1, <3>2 DEF BoundedBy, WholeUnits
  <2>3. BoundedBy(abs, 16, left) /\ WholeUnits("a64", abs)
    BY <1>3, WrittenCosts DEF A64EmitAbs, BoundedBy, WholeUnits
  <2>4. BoundedBy(none, max, left) /\ WholeUnits("a64", none)
    BY RefusedCosts DEF BoundedBy, WholeUnits
  <2>5. r = A64RelocateBranch(inst, where, left)
    BY <1>4 DEF A64Relocate
  <2> HIDE DEF direct, abs, none, r
  <2>6. \/ r = none
        \/ inst.operand /\ r \in {direct, abs}
    BY <2>5 DEF A64RelocateBranch, direct, abs, none
  <2> QED BY <2>1, <2>2, <2>3, <2>4, <2>6 DEF r, max
<1>5. CASE ~(inst.pcrel /\ inst.enc = "b") /\ moved
  <2> DEFINE disp == IF inst.enc = "adrp"
                     THEN (PageOf(to) - PageOf(where)) \div PageSize
                     ELSE to - where
             op   == IF inst.enc \in A64Conditionals THEN "cond" ELSE "ref"
             far  == A64ExpandCond(inst, to, left)
             near == Written(4, {}, {Item(op, 0, 4, A64Field(inst, disp), inst)}, left)
  <2>1. r = A64RelocateField(inst, where, left)
    BY <1>5 DEF A64Relocate
  <2>2. inst.cls = "condBranch" => max = 20
    BY <1>2, <1>5
  <2>3. max >= 4 /\ max \in Nat
    BY <1>2
  <2>4. BoundedBy(far, 20, left) /\ WholeUnits("a64", far)
    BY <1>3, WrittenCosts DEF A64ExpandCond, BoundedBy, WholeUnits
  <2>5. BoundedBy(near, 4, left) /\ WholeUnits("a64", near) /\ near.size = 4
    BY <1>3, WrittenCosts DEF BoundedBy, WholeUnits
  <2> HIDE DEF far, near, r
  <2>6. \/ inst.cls = "condBranch" /\ r = far
        \/ r = near
        \/ \E s \in {"BRANCH_OUT_OF_RANGE", "UNSUPPORTED_RELOCATION"}, n \in {0, 4} :
              r = Refused(s, n)
        \/ left < 4 /\ r = Refused("OUTPUT_TOO_SMALL", 4)
    BY <2>1 DEF A64RelocateField, far, near
  <2>7. CASE inst.cls = "condBranch" /\ r = far
    BY <2>2, <2>4, <2>7 DEF r, max
  <2>8. CASE r = near
    BY <2>3, <2>5, <2>8 DEF BoundedBy, r, max
  <2>9. CASE r.status \in {"BRANCH_OUT_OF_RANGE", "UNSUPPORTED_RELOCATION"}
    BY <2>9 DEF BoundedBy, WholeUnits, r
  <2>10. CASE left < 4 /\ r.status = "OUTPUT_TOO_SMALL"
    BY <2>3, <2>10 DEF BoundedBy, WholeUnits, r, max
  <2> QED BY <2>6, <2>7, <2>8, <2>9, <2>10, RefusedCosts
<1>6. CASE ~(inst.pcrel /\ inst.enc = "b") /\ ~moved
  <2>1. r = Written(4, {}, {Item("copy", 0, 4, 0, inst)}, left)
    BY <1>1, <1>6 DEF A64Relocate
  <2>2. max = 4
    BY <1>2, <1>6
  <2> QED BY <1>3, <2>1, <2>2, WrittenCosts DEF BoundedBy, WholeUnits, max
<1> QED BY <1>4, <1>5, <1>6

\* Every relocation of an instruction the analysis counts well is within its
\* bound, and every one is made of whole instructions.
LEMMA RelocationCosts ==
    ASSUME NEW m \in RealModes, NEW inst \in Inst, Decodable(m, inst),
           NEW where \in Int, NEW left \in Nat
    PROVE  /\ WholeUnits(m, RelocateInst(m, inst, where, left))
           /\ ~Underestimated(inst) =>
                 BoundedBy(RelocateInst(m, inst, where, left), Analyze(m, inst).max, left)
<1> DEFINE r == RelocateInst(m, inst, where, left)
<1>1. CASE m \in X86Modes
  <2>1. r = X86Relocate(m, inst, where, left) /\ Analyze(m, inst) = X86Analyze(inst)
    BY <1>1 DEF RelocateInst, Analyze
  <2>2. r.size \in Nat
    BY <1>1, <2>1, X86RelocateContract DEF Contract, Accountable, EmitResults
  <2>3. WholeUnits(m, r)
    BY <1>1, <2>2 DEF WholeUnits, PaddingUnit
  <2> QED BY <1>1, <2>1, <2>3, X86RelocationCosts
<1>2. CASE m = "a64"
  <2>1. r = A64Relocate(inst, where, left) /\ Analyze(m, inst) = A64Analyze(inst)
    BY <1>2 DEF RelocateInst, Analyze, X86Modes
  <2> QED BY <1>2, <2>1, A64RelocationCosts
<1>3. CASE m \in ArmModes
  <2>1. r = ArmRelocate(m, inst, where, left) /\ Analyze(m, inst) = ArmAnalyze(inst)
    BY <1>3 DEF RelocateInst, Analyze, X86Modes, ArmModes, VmModes
  <2> QED BY <1>3, <2>1, ArmRelocationCosts
<1> QED BY <1>1, <1>2, <1>3 DEF RealModes, Modes, ArmModes

-----------------------------------------------------------------------------
(***************************************************************************)
(* The jumps of the detour.                                                *)
(***************************************************************************)
JumpOptions(bm, granted) == [given |-> TRUE, mode |-> bm, allowed |-> granted]

\* What the target makes of a jump, before its clobbers are judged.
BareJump(m, from, to, bm, granted, left) ==
    TargetEmit(m, FALSE, from, to, JumpOptions(bm, granted), left)

\* A jump that destroys nothing, or only what was granted, is not refused.
LEMMA JumpNotRefused ==
    ASSUME NEW m, NEW from, NEW to, NEW bm, NEW granted, NEW left, NEW t,
           t = BareJump(m, from, to, bm, granted, left),
           \/ t.clobbers = {}
           \/ bm # "PREFER_CLOBBERLESS" /\ t.clobbers \subseteq granted
    PROVE  EmitJump(m, from, to, JumpOptions(bm, granted), left) = t
<1> DEFINE opts == JumpOptions(bm, granted)
<1>1. opts.mode = bm /\ opts.allowed = granted
  BY DEF JumpOptions
<1>2. ClobbersAllowed(opts, t.clobbers)
  BY <1>1 DEF ClobbersAllowed
<1> QED BY <1>2 DEF EmitJump, EmitTransfer, EmitFinish, BareJump

\* The size asmkit_min_patch_size gives is that of the jump it is asked about.
LEMMA PatchCosts ==
    ASSUME NEW m \in RealModes, NEW from \in Int, NEW to \in Int, NEW bm \in BranchModes,
           MinPatchSize(m, from, to, bm).size # 0
    PROVE  /\ MinPatchSize(m, from, to, bm).size \in Nat
           /\ MinPatchSize(m, from, to, bm).size % PaddingUnit(m) = 0
           /\ MinPatchSize(m, from, to, bm).clobbers \in SUBSET Regs
<1> DEFINE p == MinPatchSize(m, from, to, bm)
<1>1. CASE m \in X86Modes
  <2>1. p = X86MinPatch(m, from, to, bm)
    BY <1>1 DEF MinPatchSize
  <2>2. p.size \in {3, 5, 14} /\ p.clobbers = {}
    BY <2>1 DEF X86MinPatch, X86DirectSize
  <2> QED BY <1>1, <2>2 DEF PaddingUnit
<1>2. CASE m = "a64"
  <2>1. p = A64MinPatch(from, to, bm)
    BY <1>2 DEF MinPatchSize, X86Modes
  <2>2. p.size \in {4, 16} /\ p.clobbers \in SUBSET Regs
    BY <2>1 DEF A64MinPatch, Regs
  <2> QED BY <1>2, <2>2 DEF PaddingUnit, X86Modes
<1>3. CASE m \in ArmModes
  <2>1. p = ArmMinPatch(m, from, to, bm)
    BY <1>3 DEF MinPatchSize, X86Modes, ArmModes, VmModes
  <2>2. p.clobbers = {} /\ p.size \in {2, 4, 8} /\ (m = "a32" => p.size \in {4, 8})
    BY <2>1 DEF ArmMinPatch
  <2> QED BY <1>3, <2>2 DEF PaddingUnit, X86Modes, ArmModes
<1> QED BY <1>1, <1>2, <1>3 DEF RealModes, Modes, ArmModes

\* Given that room and its clobbers, the jump is emitted with that size.
LEMMA PatchIsEmitted ==
    ASSUME NEW m \in RealModes, NEW from \in Int, NEW to \in Int, NEW bm \in BranchModes,
           MinPatchSize(m, from, to, bm).size # 0,
           NEW left \in Nat, MinPatchSize(m, from, to, bm).size <= left,
           NEW granted, MinPatchSize(m, from, to, bm).clobbers \subseteq granted
    PROVE  LET r == EmitJump(m, from, to, JumpOptions(bm, granted), left)
           IN  r.status = "OK" /\ r.size = MinPatchSize(m, from, to, bm).size
<1> DEFINE p == MinPatchSize(m, from, to, bm)
           r == EmitJump(m, from, to, JumpOptions(bm, granted), left)
<1>1. CASE m \in X86Modes
  <2> DEFINE n      == X86DirectSize(m)
             direct == X86EmitRel(m, FALSE, from, to, left)
             abs    == X86EmitAbs(FALSE, to, left)
             t      == X86Emit(m, FALSE, from, to, bm, left)
             fits   == X86Fits(m, to - (from + n))
  <2>1. p.size = IF bm # "ABSOLUTE_ONLY" /\ fits THEN n
                 ELSE IF bm = "DIRECT_ONLY" \/ m # "x86_64" THEN 0 ELSE 14
    BY <1>1 DEF MinPatchSize, X86MinPatch
  <2>2. IF fits
        THEN /\ direct.size = n /\ direct.clobbers = {}
             /\ direct.status = IF left < n THEN "OUTPUT_TOO_SMALL" ELSE "OK"
        ELSE direct.status = "BRANCH_OUT_OF_RANGE"
    BY <1>1, X86RelCosts
  <2>3. /\ abs.size = 14 /\ abs.clobbers = {}
        /\ abs.status = IF left < 14 THEN "OUTPUT_TOO_SMALL" ELSE "OK"
    BY DEF X86EmitAbs, Written
  <2>4. n \in {3, 5}
    BY DEF X86DirectSize
  <2>5. t = IF bm # "ABSOLUTE_ONLY" /\ (direct.status \in Settled \/ bm = "DIRECT_ONLY")
            THEN direct
            ELSE IF m # "x86_64" THEN Refused("BRANCH_OUT_OF_RANGE", 0) ELSE abs
    BY DEF X86Emit, EmitAny
  <2>6. t.status = "OK" /\ t.size = p.size /\ t.clobbers = {}
    <3> HIDE DEF n, direct, abs, t, p, fits
    <3>1. CASE bm # "ABSOLUTE_ONLY" /\ fits
      <4>1. direct.status = "OK" /\ p.size = n
        BY <2>1, <2>2, <2>4, <3>1 DEF p
      <4> QED BY <2>2, <2>5, <3>1, <4>1 DEF Settled
    <3>2. CASE ~(bm # "ABSOLUTE_ONLY" /\ fits)
      <4>1. p.size = 14 /\ bm # "DIRECT_ONLY" /\ m = "x86_64"
        BY <2>1, <3>2 DEF p
      <4>2. abs.status = "OK"
        BY <2>3, <4>1 DEF p
      <4> QED BY <2>2, <2>3, <2>5, <3>2, <4>1, <4>2 DEF Settled
    <3> QED BY <3>1, <3>2
  <2>7. r = t
    <3> HIDE DEF p, t
    <3>1. t = BareJump(m, from, to, bm, granted, left)
      BY <1>1 DEF t, BareJump, TargetEmit, ModeOf, JumpOptions
    <3> QED BY <2>6, <3>1, JumpNotRefused
  <2> QED BY <2>6, <2>7
<1>2. CASE m = "a64"
  <2> DEFINE direct == A64EmitRel(FALSE, from, to, left)
             abs    == A64EmitAbs(FALSE, to, left)
             t      == A64Emit(FALSE, from, to, bm, TRUE, granted, left)
             fits   == FitsWords26(to - from)
  <2>1. p = IF bm # "ABSOLUTE_ONLY" /\ fits THEN [size |-> 4, clobbers |-> {}]
            ELSE IF bm \in {"DIRECT_ONLY", "PREFER_CLOBBERLESS"}
            THEN [size |-> 0, clobbers |-> {}]
            ELSE [size |-> 16, clobbers |-> {"x16"}]
    BY <1>2 DEF MinPatchSize, A64MinPatch, X86Modes
  <2>2. IF fits
        THEN /\ direct.size = 4 /\ direct.clobbers = {}
             /\ direct.status = IF left < 4 THEN "OUTPUT_TOO_SMALL" ELSE "OK"
        ELSE direct.status = "BRANCH_OUT_OF_RANGE"
    BY A64RelCosts
  <2>3. /\ abs.size = 16 /\ abs.clobbers = {"x16"}
        /\ abs.status = IF left < 16 THEN "OUTPUT_TOO_SMALL" ELSE "OK"
    BY DEF A64EmitAbs, Written
  <2>5. t = IF bm # "ABSOLUTE_ONLY" /\ (direct.status \in Settled \/ bm = "DIRECT_ONLY")
            THEN direct
            ELSE IF \/ bm = "PREFER_CLOBBERLESS"
                    \/ bm = "ALLOW_SCRATCH" /\ "x16" \notin granted
            THEN Refused("FORBIDDEN_CLOBBER", 4) ELSE abs
    BY DEF A64Emit, EmitAny
  <2> HIDE DEF direct, abs, t, fits
  <2>4. t = BareJump(m, from, to, bm, granted, left)
    BY <1>2 DEF t, BareJump, TargetEmit, ModeOf, JumpOptions, X86Modes
  <2>6. CASE bm # "ABSOLUTE_ONLY" /\ fits
    <3>1. p.size = 4
      BY <2>1, <2>6
    <3>2. direct.status = "OK"
      BY <2>2, <2>6, <3>1
    <3>3. t = direct
      BY <2>5, <2>6, <3>2 DEF Settled
    <3>4. r = t
      <4>1. t.clobbers = {}
        BY <2>2, <2>6, <3>3
      <4> HIDE DEF p
      <4> QED BY <2>4, <4>1, JumpNotRefused
    <3> QED BY <2>2, <2>6, <3>1, <3>2, <3>3, <3>4
  <2>7. CASE ~(bm # "ABSOLUTE_ONLY" /\ fits)
    <3>1. p.size = 16 /\ p.clobbers = {"x16"} /\ bm \notin {"DIRECT_ONLY", "PREFER_CLOBBERLESS"}
      BY <2>1, <2>7
    <3>2. abs.status = "OK" /\ "x16" \in granted
      BY <2>3, <3>1
    <3>3. t = abs
      BY <2>2, <2>5, <2>7, <3>1, <3>2 DEF Settled
    <3>4. r = t
      <4>1. bm # "PREFER_CLOBBERLESS" /\ t.clobbers \subseteq granted
        BY <2>3, <3>1, <3>2, <3>3
      <4> HIDE DEF p
      <4> QED BY <2>4, <4>1, JumpNotRefused
    <3> QED BY <2>3, <3>1, <3>2, <3>3, <3>4
  <2> QED BY <2>6, <2>7
<1>3. CASE m \in ArmModes
  <2> DEFINE n      == IF m = "a32" THEN 4 ELSE 2
             direct == ArmEmitRel(m, FALSE, from, to, left)
             abs    == ArmEmitAbsA32(FALSE, to, left)
             t      == ArmEmit(m, FALSE, from, to, bm, left)
             fits   == IF m = "a32" THEN FitsWords24(to - (from + 8))
                       ELSE FitsThumb(to - (from + 4))
  <2>1. p.size = (IF bm # "ABSOLUTE_ONLY" /\ fits THEN n
                  ELSE IF bm = "DIRECT_ONLY" \/ m # "a32" THEN 0 ELSE 8)
    BY <1>3 DEF MinPatchSize, ArmMinPatch, X86Modes, ArmModes, VmModes
  <2>2. IF fits
        THEN /\ direct.size = n /\ direct.clobbers = {}
             /\ direct.status = IF left < n THEN "OUTPUT_TOO_SMALL" ELSE "OK"
        ELSE direct.status = "BRANCH_OUT_OF_RANGE"
    <3>1. FALSE \in BOOLEAN
      OBVIOUS
    <3> QED BY <1>3, <3>1 DEF ArmEmitRel, Written, Refused
  <2>3. /\ abs.size = 8 /\ abs.clobbers = {}
        /\ abs.status = IF left < 8 THEN "OUTPUT_TOO_SMALL" ELSE "OK"
    BY WrittenCosts DEF ArmEmitAbsA32
  <2>5. t = IF bm # "ABSOLUTE_ONLY" /\ (direct.status \in Settled \/ bm = "DIRECT_ONLY")
            THEN direct
            ELSE IF m # "a32" THEN Refused("BRANCH_OUT_OF_RANGE", 0) ELSE abs
    BY DEF ArmEmit, EmitAny
  <2>4. n \in {2, 4}
    OBVIOUS
  <2>6. t.status = "OK" /\ t.size = p.size /\ t.clobbers = {}
    <3> HIDE DEF n, direct, abs, t, p, fits
    <3>1. CASE bm # "ABSOLUTE_ONLY" /\ fits
      <4>1. direct.status = "OK" /\ p.size = n
        BY <2>1, <2>2, <2>4, <3>1 DEF p
      <4> QED BY <2>2, <2>5, <3>1, <4>1 DEF Settled
    <3>2. CASE ~(bm # "ABSOLUTE_ONLY" /\ fits)
      <4>1. p.size = 8 /\ bm # "DIRECT_ONLY" /\ m = "a32"
        BY <2>1, <3>2 DEF p
      <4>2. abs.status = "OK"
        BY <2>3, <4>1 DEF p
      <4> QED BY <2>2, <2>3, <2>5, <3>2, <4>1, <4>2 DEF Settled
    <3> QED BY <3>1, <3>2
  <2>7. r = t
    <3> HIDE DEF p, t
    <3>1. t = BareJump(m, from, to, bm, granted, left)
      BY <1>3 DEF t, BareJump, TargetEmit, ModeOf, JumpOptions,
             ArmModes, X86Modes, VmModes
    <3> QED BY <2>6, <3>1, JumpNotRefused
  <2> QED BY <2>6, <2>7
<1> QED BY <1>1, <1>2, <1>3 DEF RealModes, Modes, ArmModes

\* The bound of a jump back, as a record of its own parts.
LEMMA JumpBackBounds ==
    ASSUME NEW m \in RealModes, NEW bm \in BranchModes, PlanJumpBack(m, bm).status = "OK"
    PROVE  /\ PlanJumpBack(m, bm) \in Bounds
           /\ m \in X86Modes /\ PlanJumpBack(m, bm).size # 14 =>
                 /\ bm # "ABSOLUTE_ONLY" /\ (m # "x86_64" \/ bm = "DIRECT_ONLY")
                 /\ PlanJumpBack(m, bm).size = X86DirectSize(m)
           /\ m = "a64" /\ PlanJumpBack(m, bm).size # 16 =>
                 bm \in {"DIRECT_ONLY", "PREFER_CLOBBERLESS"} /\ PlanJumpBack(m, bm).size = 4
           /\ m = "a32" /\ PlanJumpBack(m, bm).size # 8 =>
                 bm = "DIRECT_ONLY" /\ PlanJumpBack(m, bm).size = 4
           /\ m = "thumb" => bm # "ABSOLUTE_ONLY" /\ PlanJumpBack(m, bm).size = 2
<1> DEFINE b == PlanJumpBack(m, bm)
<1>0. I32Max \in Nat /\ {} \in SUBSET Regs /\ {"x16"} \in SUBSET Regs /\ "OK" \in Statuses
  BY I32Assumption DEF Regs, Statuses
<1>1. CASE m \in X86Modes
  <2>1. b = X86PlanJumpBack(m, bm) /\ m \notin {"a64", "a32", "thumb"}
    BY <1>1 DEF PlanJumpBack, X86Modes
  <2>2. CASE bm # "DIRECT_ONLY" /\ m = "x86_64"
    BY <1>0, <2>1, <2>2 DEF X86PlanJumpBack, Bound, Bounds
  <2>3. CASE ~(bm # "DIRECT_ONLY" /\ m = "x86_64")
    <3>1. bm # "ABSOLUTE_ONLY"
      BY <2>1, <2>3 DEF X86PlanJumpBack, Bound
    <3>2. CASE m = "x86_16"
      BY <1>0, <2>1, <2>3, <3>1, <3>2, SMT DEF X86PlanJumpBack, X86DirectSize, Bound, Bounds
    <3>3. CASE m # "x86_16"
      BY <1>0, <2>1, <2>3, <3>1, <3>3, SMT DEF X86PlanJumpBack, X86DirectSize, Bound, Bounds
    <3> QED BY <3>2, <3>3
  <2> QED BY <2>2, <2>3
<1>2. CASE m = "a64"
  <2>1. b = A64PlanJumpBack(bm) /\ m \notin X86Modes
    BY <1>2 DEF PlanJumpBack, X86Modes
  <2>2. CASE bm \in {"DIRECT_ONLY", "PREFER_CLOBBERLESS"}
    <3>1. b = Bound("OK", 4, TRUE, -134217728, 134217724, {})
      BY <2>1, <2>2, SMT DEF A64PlanJumpBack
    <3>2. b \in Bounds /\ b.size = 4
      BY <1>0, <3>1, SMT DEF Bound, Bounds
    <3> HIDE DEF b
    <3> QED BY <1>2, <2>2, <3>2 DEF X86Modes, b
  <2>3. CASE bm \notin {"DIRECT_ONLY", "PREFER_CLOBBERLESS"}
    <3>1. b = Bound("OK", 16, FALSE, 0, 0, {"x16"})
      BY <2>1, <2>3, SMT DEF A64PlanJumpBack
    <3>2. b \in Bounds /\ b.size = 16
      BY <1>0, <3>1, SMT DEF Bound, Bounds
    <3> HIDE DEF b
    <3> QED BY <1>2, <3>2 DEF X86Modes, b
  <2> QED BY <2>2, <2>3
<1>3. CASE m \in ArmModes
  <2>1. b = ArmPlanJumpBack(m, bm) /\ m \notin X86Modes /\ m # "a64"
    BY <1>3 DEF PlanJumpBack, X86Modes, VmModes, ArmModes
  <2> QED BY <1>0, <1>3, <2>1, SMT DEF ArmPlanJumpBack, Bound, Bounds, ArmModes
<1> QED BY <1>1, <1>2, <1>3 DEF RealModes, Modes, ArmModes

\* The direct form of a jump, whatever the target.
DirectJump(m, from, to, left) ==
    IF m \in X86Modes THEN X86EmitRel(m, FALSE, from, to, left)
    ELSE IF m = "a64" THEN A64EmitRel(FALSE, from, to, left)
    ELSE ArmEmitRel(m, FALSE, from, to, left)

DirectSize(m) ==
    IF m \in X86Modes THEN X86DirectSize(m) ELSE IF m = "thumb" THEN 2 ELSE 4

DirectReaches(m, from, to) ==
    IF m \in X86Modes THEN X86Fits(m, to - (from + X86DirectSize(m)))
    ELSE IF m = "a64" THEN FitsWords26(to - from)
    ELSE IF m = "a32" THEN FitsWords24(to - (from + 8))
    ELSE FitsThumb(to - (from + 4))

\* A direct jump has one size per target, and is emitted when the target is in reach.
LEMMA DirectJumpCosts ==
    ASSUME NEW m \in RealModes, NEW from \in Int, NEW to \in Int, NEW left \in Nat
    PROVE  /\ DirectSize(m) \in {2, 3, 4, 5}
           /\ IF DirectReaches(m, from, to)
              THEN /\ DirectJump(m, from, to, left).size = DirectSize(m)
                   /\ DirectJump(m, from, to, left).clobbers = {}
                   /\ DirectJump(m, from, to, left).status
                        = IF left < DirectSize(m) THEN "OUTPUT_TOO_SMALL" ELSE "OK"
              ELSE DirectJump(m, from, to, left).status = "BRANCH_OUT_OF_RANGE"
<1>1. CASE m \in X86Modes
  BY <1>1, X86RelCosts DEF DirectJump, DirectSize, DirectReaches, X86DirectSize
<1>2. CASE m = "a64"
  BY <1>2, A64RelCosts DEF DirectJump, DirectSize, DirectReaches, X86Modes
<1>3. CASE m \in ArmModes
  BY <1>3 DEF DirectJump, DirectSize, DirectReaches, X86Modes, ArmModes, ArmEmitRel,
              Written, Refused
<1> QED BY <1>1, <1>2, <1>3 DEF RealModes, Modes, ArmModes

\* A jump is direct if that reaches, or if nothing else may be tried; otherwise
\* it is absolute or refused.
AbsoluteSize(m) == IF m = "x86_64" THEN 14 ELSE IF m = "a64" THEN 16 ELSE 8

\* A jump emitted before the clobber policy is the direct one, a refusal, or the
\* absolute one.
LEMMA BareJumpForms ==
    ASSUME NEW m \in RealModes, NEW from \in Int, NEW to \in Int, NEW bm \in BranchModes,
           NEW granted, NEW left \in Nat,
           NEW t, t = BareJump(m, from, to, bm, granted, left),
           NEW d, d = DirectJump(m, from, to, left)
    PROVE  /\ bm # "ABSOLUTE_ONLY" /\ (d.status \in Settled \/ bm = "DIRECT_ONLY") => t = d
           /\ \/ t = d /\ bm # "ABSOLUTE_ONLY"
              \/ t.status \in {"BRANCH_OUT_OF_RANGE", "FORBIDDEN_CLOBBER"}
              \/ /\ m \in {"x86_64", "a32", "a64"} /\ bm # "DIRECT_ONLY"
                 /\ m = "a64" => bm # "PREFER_CLOBBERLESS"
                 /\ BoundedBy(t, AbsoluteSize(m), left)
<1>1. CASE m \in X86Modes
  <2>1. /\ t = X86Emit(m, FALSE, from, to, bm, left)
        /\ d = X86EmitRel(m, FALSE, from, to, left)
    BY <1>1 DEF BareJump, TargetEmit, ModeOf, JumpOptions, DirectJump
  <2>2. BoundedBy(X86EmitAbs(FALSE, to, left), 14, left)
    BY DEF BoundedBy, X86EmitAbs, Written
  <2>3. t = IF bm # "ABSOLUTE_ONLY" /\ (d.status \in Settled \/ bm = "DIRECT_ONLY")
            THEN d
            ELSE IF m # "x86_64" THEN Refused("BRANCH_OUT_OF_RANGE", 0)
            ELSE X86EmitAbs(FALSE, to, left)
    BY <2>1 DEF X86Emit, EmitAny
  <2>4. \A s : Refused(s, 0).status = s /\ Refused(s, 4).status = s
    BY RefusedCosts
  <2> QED BY <1>1, <2>2, <2>3, <2>4 DEF AbsoluteSize, X86Modes
<1>2. CASE m = "a64"
  <2>1. /\ t = A64Emit(FALSE, from, to, bm, TRUE, granted, left)
        /\ d = A64EmitRel(FALSE, from, to, left)
    BY <1>2 DEF BareJump, TargetEmit, ModeOf, JumpOptions, DirectJump, X86Modes
  <2>2. BoundedBy(A64EmitAbs(FALSE, to, left), 16, left)
    BY DEF BoundedBy, A64EmitAbs, Written
  <2>3. t = IF bm # "ABSOLUTE_ONLY" /\ (d.status \in Settled \/ bm = "DIRECT_ONLY")
            THEN d
            ELSE IF \/ bm = "PREFER_CLOBBERLESS"
                    \/ bm = "ALLOW_SCRATCH" /\ "x16" \notin granted
            THEN Refused("FORBIDDEN_CLOBBER", 4) ELSE A64EmitAbs(FALSE, to, left)
    BY <2>1 DEF A64Emit, EmitAny
  <2>4. \A s : Refused(s, 0).status = s /\ Refused(s, 4).status = s
    BY RefusedCosts
  <2> QED BY <1>2, <2>2, <2>3, <2>4 DEF AbsoluteSize
<1>3. CASE m \in ArmModes
  <2>1. /\ t = ArmEmit(m, FALSE, from, to, bm, left)
        /\ d = ArmEmitRel(m, FALSE, from, to, left)
    BY <1>3 DEF BareJump, TargetEmit, ModeOf, JumpOptions, DirectJump, X86Modes, ArmModes,
                VmModes
  <2>2. BoundedBy(ArmEmitAbsA32(FALSE, to, left), 8, left)
    BY DEF BoundedBy, ArmEmitAbsA32, Written
  <2>3. t = IF bm # "ABSOLUTE_ONLY" /\ (d.status \in Settled \/ bm = "DIRECT_ONLY")
            THEN d
            ELSE IF m = "a32" THEN ArmEmitAbsA32(FALSE, to, left)
            ELSE Refused("BRANCH_OUT_OF_RANGE", 0)
    BY <2>1 DEF ArmEmit, EmitAny
  <2>4. \A s : Refused(s, 0).status = s /\ Refused(s, 4).status = s
    BY RefusedCosts
  <2> QED BY <1>3, <2>2, <2>3, <2>4 DEF AbsoluteSize, ArmModes
<1> QED BY <1>1, <1>2, <1>3 DEF RealModes, Modes, ArmModes

\* No jump back takes more room than its bound.
LEMMA JumpBackCosts ==
    ASSUME NEW m \in RealModes, NEW from \in Int, NEW to \in Int, NEW bm \in BranchModes,
           NEW granted, NEW left \in Nat, PlanJumpBack(m, bm).status = "OK"
    PROVE  BoundedBy(EmitJump(m, from, to, JumpOptions(bm, granted), left),
                     PlanJumpBack(m, bm).size, left)
<1> DEFINE b == PlanJumpBack(m, bm)
           t == BareJump(m, from, to, bm, granted, left)
           d == DirectJump(m, from, to, left)
           r == EmitJump(m, from, to, JumpOptions(bm, granted), left)
<1>1. BoundedBy(t, b.size, left)
  <2> HIDE DEF t, d, b
  <2>1. \/ t = d /\ bm # "ABSOLUTE_ONLY"
        \/ t.status \in {"BRANCH_OUT_OF_RANGE", "FORBIDDEN_CLOBBER"}
        \/ /\ m \in {"x86_64", "a32", "a64"} /\ bm # "DIRECT_ONLY"
           /\ m = "a64" => bm # "PREFER_CLOBBERLESS"
           /\ BoundedBy(t, AbsoluteSize(m), left)
    BY BareJumpForms DEF t, d
  <2>2. DirectSize(m) \in Nat /\ BoundedBy(d, DirectSize(m), left)
    BY DirectJumpCosts DEF d, BoundedBy
  <2>3. b.size \in Nat /\ DirectSize(m) <= b.size
    BY JumpBackBounds DEF b, Bounds, DirectSize, X86DirectSize, RealModes, Modes, X86Modes
  <2>4. CASE t = d
    <3>1. d.status = "OK" => d.size = DirectSize(m)
      BY DirectJumpCosts DEF d
    <3> QED BY <2>2, <2>3, <2>4, <3>1 DEF BoundedBy
  <2>5. CASE t.status \in {"BRANCH_OUT_OF_RANGE", "FORBIDDEN_CLOBBER"}
    BY <2>5 DEF BoundedBy
  <2>6. CASE /\ m \in {"x86_64", "a32", "a64"} /\ bm # "DIRECT_ONLY"
             /\ m = "a64" => bm # "PREFER_CLOBBERLESS"
             /\ BoundedBy(t, AbsoluteSize(m), left)
    <3>1. b.size = AbsoluteSize(m)
      BY <2>6, JumpBackBounds DEF b, AbsoluteSize, X86Modes
    <3> QED BY <2>6, <3>1
  <2> QED BY <2>1, <2>4, <2>5, <2>6
<1>2. r.size = t.size /\ r.status \in {t.status, "FORBIDDEN_CLOBBER"}
  BY DEF EmitJump, EmitTransfer, EmitFinish, BareJump
<1> QED BY <1>1, <1>2 DEF BoundedBy

\* A jump back over a distance that leaves room for the read-ahead of the
\* program counter is emitted, when its bound is that of the direct form.
LEMMA NearJumpBack ==
    ASSUME NEW m \in RealModes, NEW from \in Int, NEW to \in Int, NEW bm \in BranchModes,
           NEW granted, NEW left \in Nat,
           PlanJumpBack(m, bm).status = "OK", PlanJumpBack(m, bm).near,
           from % PaddingUnit(m) = 0, to % PaddingUnit(m) = 0,
           PlanJumpBack(m, bm).min + 8 <= to - from, to - from <= PlanJumpBack(m, bm).max,
           PlanJumpBack(m, bm).size <= left
    PROVE  EmitJump(m, from, to, JumpOptions(bm, granted), left).status = "OK"
<1> DEFINE b == PlanJumpBack(m, bm)
           t == BareJump(m, from, to, bm, granted, left)
           d == DirectJump(m, from, to, left)
           gap == to - from
<1>1. gap \in Int
  OBVIOUS
<1>2. DirectReaches(m, from, to) /\ b.size = DirectSize(m) /\ bm # "ABSOLUTE_ONLY"
  <2>1. CASE m \in X86Modes
    <3>1. b = X86PlanJumpBack(m, bm)
      BY <2>1 DEF PlanJumpBack
    <3>2. b = IF m = "x86_16" THEN Bound("OK", 3, TRUE, -32768, 32767, {})
              ELSE Bound("OK", 5, TRUE, -I32Max - 1, I32Max, {})
      BY <3>1, SMT DEF X86PlanJumpBack, Bound
    <3>5. bm # "ABSOLUTE_ONLY"
      BY <3>1, SMT DEF X86PlanJumpBack, Bound
    <3>3. CASE m = "x86_16"
      <4>1. b.size = 3 /\ b.min = -32768 /\ b.max = 32767
        BY <3>2, <3>3, SMT DEF Bound
      <4>2. -32768 + 8 <= gap /\ gap <= 32767 /\ to - (from + 3) = gap - 3
        BY <4>1, SMT
      <4>3. X86DirectSize(m) = 3 /\ X86Fits(m, to - (from + 3))
        BY <1>1, <3>3, <4>2, SMT DEF X86Fits, FitsI16, X86DirectSize
      <4>4. DirectReaches(m, from, to)
        BY <2>1, <4>3 DEF DirectReaches
      <4>5. DirectSize(m) = X86DirectSize(m)
        BY <2>1 DEF DirectSize
      <4> HIDE DEF b
      <4> QED BY <3>5, <4>1, <4>3, <4>4, <4>5
    <3>4. CASE m # "x86_16"
      <4>1. b.size = 5 /\ b.min = -I32Max - 1 /\ b.max = I32Max
        BY <3>2, <3>4, SMT DEF Bound
      <4>2. -I32Max - 1 + 8 <= gap /\ gap <= I32Max /\ to - (from + 5) = gap - 5
        BY <4>1, I32Assumption, SMT
      <4>3. X86DirectSize(m) = 5 /\ X86Fits(m, to - (from + 5))
        BY <1>1, <3>4, <4>2, I32Assumption, SMT DEF X86Fits, FitsI32, X86DirectSize
      <4>4. DirectReaches(m, from, to)
        BY <2>1, <4>3 DEF DirectReaches
      <4>5. DirectSize(m) = X86DirectSize(m)
        BY <2>1 DEF DirectSize
      <4> HIDE DEF b
      <4> QED BY <3>5, <4>1, <4>3, <4>4, <4>5
    <3> QED BY <3>3, <3>4
  <2>2. CASE m = "a64"
    <3>1. b = A64PlanJumpBack(bm) /\ m \notin X86Modes
      BY <2>2 DEF PlanJumpBack, X86Modes
    <3>2. b.size = 4 /\ b.min = -134217728 /\ b.max = 134217724
          /\ bm \in {"DIRECT_ONLY", "PREFER_CLOBBERLESS"}
      BY <3>1, SMT DEF A64PlanJumpBack, Bound
    <3>3. gap % 4 = 0
      BY <2>2, <3>1, SMT DEF PaddingUnit
    <3>4. -134217728 + 8 <= gap /\ gap <= 134217724
      BY <3>2, SMT
    <3> QED BY <1>1, <2>2, <3>1, <3>2, <3>3, <3>4, SMT
            DEF DirectReaches, DirectSize, FitsWords26
  <2>3. CASE m = "a32"
    <3>1. b = ArmPlanJumpBack(m, bm) /\ m \notin X86Modes
      BY <2>3 DEF PlanJumpBack, X86Modes, VmModes
    <3>2. b.size = 4 /\ b.min = -33554432 /\ b.max = 33554428 /\ bm = "DIRECT_ONLY"
      BY <2>3, <3>1, SMT DEF ArmPlanJumpBack, Bound
    <3>3. (to - (from + 8)) % 4 = 0
      BY <2>3, <3>1, SMT DEF PaddingUnit
    <3>4. /\ -33554432 + 8 <= gap /\ gap <= 33554428
          /\ to - (from + 8) = gap - 8
      BY <3>2, SMT
    <3> QED BY <1>1, <2>3, <3>1, <3>2, <3>3, <3>4, SMT
            DEF DirectReaches, DirectSize, FitsWords24
  <2>4. CASE m = "thumb"
    <3>1. b = ArmPlanJumpBack(m, bm) /\ m \notin X86Modes
      BY <2>4 DEF PlanJumpBack, X86Modes, VmModes
    <3>2. b.size = 2 /\ b.min = -2048 /\ b.max = 2046 /\ bm # "ABSOLUTE_ONLY"
      BY <2>4, <3>1, SMT DEF ArmPlanJumpBack, Bound
    <3>3. (to - (from + 4)) % 2 = 0
      BY <2>4, <3>1, SMT DEF PaddingUnit
    <3>4. -2048 + 8 <= gap /\ gap <= 2046 /\ to - (from + 4) = gap - 4
      BY <3>2, SMT
    <3> QED BY <1>1, <2>4, <3>1, <3>2, <3>3, <3>4, SMT
            DEF DirectReaches, DirectSize, FitsThumb
  <2> QED BY <2>1, <2>2, <2>3, <2>4 DEF RealModes, Modes
<1>3. d.status = "OK" /\ d.clobbers = {}
  BY <1>2, DirectJumpCosts
<1>4. t = d
  <2> HIDE DEF t, d
  <2> QED BY <1>2, <1>3, BareJumpForms DEF Settled, t, d
<1>5. EmitJump(m, from, to, JumpOptions(bm, granted), left) = t
  <2>1. t.clobbers = {}
    BY <1>3, <1>4
  <2> HIDE DEF b, t, d
  <2> QED BY <2>1, JumpNotRefused DEF t
<1> QED BY <1>3, <1>4, <1>5

-----------------------------------------------------------------------------
(***************************************************************************)
(* The inductive invariant.  The plan and the relocation decode the same   *)
(* code at different times, so what relates them is stated of the code:    *)
(* the sums, over its first instructions, of their sizes and of their      *)
(* bounds.  A sum is a function on 0..n that starts at 0 and grows by the  *)
(* k-th summand at k.                                                      *)
(***************************************************************************)
SizesOf(f, c, n) ==
    /\ f \in [0..n -> Nat] /\ f[0] = 0
    /\ \A k \in 1..n : f[k] = f[k - 1] + c[k].size

BoundsOf(g, m, c, n) ==
    /\ g \in [0..n -> Nat] /\ g[0] = 0
    /\ \A k \in 1..n : g[k] = g[k - 1] + Analyze(m, c[k]).max
    /\ \A k \in 0..n : g[k] <= g[n]

HazardsOf(m, c, n) == UNION {Analyze(m, c[k]).hazards : k \in 1..n}

\* The code is one a decoder reports, and what is decoded of it is a prefix.
PrefixInv ==
    /\ \A k \in 1..Len(code) : Decodable(mode, code[k])
    /\ Len(insts) <= Len(code) /\ Len(insts) <= MaxBlock
    /\ \A k \in 1..Len(insts) : insts[k].inst = code[k] /\ Origin <= insts[k].address
    /\ mode \notin VmModes => total % PaddingUnit(mode) = 0

ArgumentInv ==
    /\ \E p \in Programs : mode = p.mode /\ code = p.code /\ tail = p.tail
    /\ room = MaxBlock
    /\ replacement \in Int /\ override \in Nat
    /\ DetourTypeOK

\* Until a trampoline is placed nothing is relocated; from the first successful
\* check on, the mode is one of a processor and both jumps have a size.
Unplaced == {"size", "decode", "analyze", "planned", "refused"}

Feasible == mode \notin VmModes /\ PatchSize.size # 0 /\ BackBound.status = "OK"

PlanningInv ==
    /\ phase \in Unplaced => WorkInit
    /\ phase = "size" => DecodeInit /\ need = 0
    /\ phase \notin {"size", "refused"} => Feasible
    /\ phase \in {"size", "decode"} => plan = NoPlan /\ emitMax = 0 /\ analyzed = 0
    /\ phase \in {"decode", "analyze"} => need >= PatchSize.size
    /\ phase = "analyze" => dstatus = "OK"
    /\ phase \notin {"pad", "hooked", "abandoned"} => entry = NoEmission
    /\ phase \notin {"hooked", "abandoned"} => padding = NoEmission

\* What the plan says once it is sized.
PlanSays ==
    /\ plan.patch = PatchSize.size
    /\ plan.near = BackBound.near /\ plan.min = BackBound.min /\ plan.max = BackBound.max
    /\ plan.clobbers = PatchSize.clobbers \cup BackBound.clobbers

AnalysisInv ==
    phase = "analyze" =>
        /\ PlanSays /\ plan.overwrite = total
        /\ plan.hazards = HazardsOf(mode, code, analyzed)
        /\ \E g : BoundsOf(g, mode, code, analyzed) /\ g[analyzed] = emitMax

\* The block of a finished plan: n instructions with the partial sums f and g.
PlanFacts(n, f, g) ==
    /\ PlanSays
    /\ n \in 1..Len(code) /\ n <= MaxBlock
    /\ \A k \in 1..(n - 1) : ~code[k].term
    /\ SizesOf(f, code, n) /\ \A k \in 0..(n - 1) : f[k] < f[n]
    /\ BoundsOf(g, mode, code, n)
    /\ plan.overwrite = f[n] /\ plan.patch <= f[n] /\ f[n] % PaddingUnit(mode) = 0
    /\ plan.trampoline = g[n] + BackBound.size
    /\ plan.hazards = HazardsOf(mode, code, n)

\* How far the relocation has come in that block.
RunFacts(n, f, g) ==
    /\ need = f[n] /\ cap = plan.trampoline /\ allowed = plan.clobbers
    /\ cont = Origin + plan.overwrite
    /\ Len(insts) <= n /\ total = f[Len(insts)]
    /\ dstatus \in {"RUNNING", "OK"}
    /\ dstatus = "OK" => Len(insts) = n
    /\ rpc = "done" => dstatus = "OK"
    /\ rpc # "done" \/ status = "OK" => hazards = HazardsOf(mode, code, Len(recs))
    /\ offset % PaddingUnit(mode) = 0
    /\ WellEstimated => offset <= g[Len(recs)] /\ status # "OUTPUT_TOO_SMALL"
    /\ rpc = "done" /\ Len(recs) = Len(insts) => status = Return.status

\* What the patch has come to.
PatchFacts ==
    /\ phase \in {"pad", "hooked", "abandoned"} => rpc = "done"
    /\ phase \in {"pad", "hooked"} =>
          status = "OK" /\ entry.status = "OK" /\ entry.size = plan.patch
    /\ phase = "pad" => plan.patch < plan.overwrite
    /\ phase = "hooked" => entry.size + padding.size = plan.overwrite
    /\ phase = "abandoned" => status # "OK"

PlannedInv ==
    Planned => \E n, f, g :
        /\ PlanFacts(n, f, g)
        /\ phase # "planned" => RunFacts(n, f, g) /\ PatchFacts

DetourInv ==
    /\ RelocateInv
    /\ PrefixInv /\ ArgumentInv /\ PlanningInv /\ AnalysisInv /\ PlannedInv

\* The properties follow from it.
LEMMA DetourInvImplies ==
    ASSUME DetourInv
    PROVE  DetourTypeOK /\ PlannedSizeSuffices /\ PlanHonoured /\ PatchCovers /\ NearEnough
<1>1. DetourTypeOK
  BY DEF DetourInv, ArgumentInv
<1>2. ASSUME phase \in Unplaced
      PROVE  PlannedSizeSuffices /\ PlanHonoured /\ NearEnough
  <2>1. status = "NONE" /\ rpc = "decode"
    BY <1>2 DEF DetourInv, PlanningInv, WorkInit
  <2> QED BY <2>1 DEF PlannedSizeSuffices, PlanHonoured, NearEnough
<1>3. ASSUME phase \notin Unplaced
      PROVE  PlannedSizeSuffices /\ PlanHonoured /\ NearEnough
  <2>1. Planned /\ phase # "planned"
    BY <1>3 DEF Unplaced, Planned
  <2>2. PICK n, f, g : PlanFacts(n, f, g) /\ RunFacts(n, f, g)
    BY <2>1 DEF DetourInv, PlannedInv
  <2>3. PlannedSizeSuffices
    BY <2>2 DEF PlannedSizeSuffices, RunFacts
  <2>4. PlanHonoured
    <3> SUFFICES ASSUME status = "OK"
                 PROVE  /\ result.overwritten = plan.overwrite
                        /\ hazards = plan.hazards
                        /\ clob \subseteq plan.clobbers
      BY DEF PlanHonoured
    <3>1. /\ dstatus = "OK" /\ Len(recs) = Len(insts) /\ result.overwritten = total
          /\ clob \subseteq allowed
      BY DEF DetourInv, RelocateInv, ResultInv, ClobberInv
    <3>2. Len(insts) = n /\ total = f[n]
      BY <2>2, <3>1 DEF RunFacts
    <3> QED BY <2>2, <3>1, <3>2 DEF PlanFacts, RunFacts
  <2>5. NearEnough
    <3> SUFFICES ASSUME plan.near, rpc = "done", Len(recs) = Len(insts), WellEstimated,
                        Origin % PaddingUnit(mode) = 0, raddr % PaddingUnit(mode) = 0,
                        plan.min + Slack <= Origin - raddr,
                        Origin - raddr <= plan.max - Slack
                 PROVE  status = "OK"
      BY DEF NearEnough
    <3> DEFINE from == raddr + offset
               unit == PaddingUnit(mode)
               b    == BackBound
    <3>1. /\ mode \in RealModes /\ bmode \in BranchModes /\ raddr \in Int /\ offset \in Nat
          /\ Origin \in Int /\ cap \in Nat /\ offset <= cap
      BY <1>3, BlockAssumption
         DEF DetourInv, PlanningInv, Feasible, Unplaced, RelocateInv, TypeOK, DecodeTypeOK,
             BufferInv, RealModes
    <3>2. b.status = "OK" /\ b.near
      BY <1>3, <2>2 DEF DetourInv, PlanningInv, Feasible, PlanFacts, PlanSays, Unplaced
    <3>3. b \in Bounds
      BY <3>1, <3>2, JumpBackBounds DEF BackBound
    <3>4. b.size \in Nat /\ b.min \in Int /\ b.max \in Int
      BY <3>3 DEF Bounds
    <3>5. /\ f[n] \in Nat /\ g[n] \in Nat /\ n = Len(recs)
      BY <2>2 DEF PlanFacts, RunFacts, SizesOf, BoundsOf
    <3>6. /\ offset <= g[n] /\ plan.trampoline = g[n] + b.size /\ cap = plan.trampoline
          /\ plan.overwrite = f[n] /\ cont = Origin + f[n]
          /\ plan.min = b.min /\ plan.max = b.max
      BY <2>2, <3>5 DEF PlanFacts, PlanSays, RunFacts
    <3> HIDE DEF b
    <3>7. /\ b.min + 8 <= cont - from /\ cont - from <= b.max
          /\ b.size <= cap - offset /\ cont \in Int /\ from \in Int /\ cap - offset \in Nat
      <4>1. Slack = f[n] + g[n] + b.size + 8
        BY <3>4, <3>5, <3>6 DEF Slack
      <4> DEFINE fn == f[n]
                 gn == g[n]
      <4>2. /\ fn \in Nat /\ gn \in Nat /\ offset \in Nat /\ raddr \in Int /\ Origin \in Int
            /\ b.size \in Nat /\ b.min \in Int /\ b.max \in Int /\ offset <= gn
            /\ cap = gn + b.size /\ cont = Origin + fn
            /\ b.min + (fn + gn + b.size + 8) <= Origin - raddr
            /\ Origin - raddr <= b.max - (fn + gn + b.size + 8)
        BY <3>1, <3>4, <3>5, <3>6, <4>1
      <4> HIDE DEF fn, gn
      <4>3. cont \in Int /\ from \in Int
        BY <4>2
      <4>7. cap - offset \in Int
        BY <4>2
      <4>8. b.size <= cap - offset
        BY <4>2
      <4>9. cap - offset \in Nat
        <5>1. b.size \in Nat
          BY <4>2
        <5> QED BY <4>7, <4>8, <5>1
      <4> DEFINE lo == b.min
                 hi == b.max
                 bs == b.size
                 gap == Origin - raddr
      <4>4. /\ cont - from = gap + fn - offset
            /\ gap \in Int /\ lo \in Int /\ hi \in Int /\ bs \in Nat
            /\ fn \in Nat /\ gn \in Nat /\ offset \in Nat /\ offset <= gn
            /\ lo + (fn + gn + bs + 8) <= gap /\ gap <= hi - (fn + gn + bs + 8)
        BY <4>2
      <4> HIDE DEF lo, hi, bs, gap, from
      <4>5. lo + 8 <= cont - from
        <5>1. lo + 8 <= gap + fn - offset
          BY ONLY <4>4
        <5> QED BY <4>4, <5>1
      <4>6. cont - from <= hi
        <5>1. gap + fn - offset <= hi
          BY ONLY <4>4
        <5> QED BY <4>4, <5>1
      <4> QED BY <4>3, <4>5, <4>6, <4>8, <4>9 DEF lo, hi
    <3>8. cont % unit = 0 /\ from % unit = 0
      <4>1. f[n] % unit = 0 /\ offset % unit = 0
        BY <2>2 DEF PlanFacts, RunFacts
      <4>2. cont % unit = 0
        <5> DEFINE fn == f[n]
        <5>1. fn \in Int /\ fn % unit = 0 /\ cont = Origin + fn
          BY <3>5, <3>6, <4>1
        <5> HIDE DEF fn
        <5> QED BY <3>1, <5>1, UnitSum
      <4>3. from % unit = 0
        BY <3>1, <4>1, UnitSum
      <4> QED BY <4>2, <4>3
    <3>9. EmitJump(mode, from, cont, JumpOptions(bmode, allowed), cap - offset).status = "OK"
      BY <3>1, <3>2, <3>7, <3>8, NearJumpBack DEF b, BackBound
    <3> QED BY <2>2, <3>9 DEF RunFacts, Return, JumpOptions
  <2> QED BY <2>3, <2>4, <2>5
<1>4. PatchCovers
  <2> SUFFICES ASSUME Planned
               PROVE  PatchCovers
    BY DEF PatchCovers, Planned
  <2>1. PICK n, f, g : PlanFacts(n, f, g) /\ (phase # "planned" => PatchFacts)
    BY DEF DetourInv, PlannedInv
  <2> QED BY <2>1 DEF PlanFacts, PatchFacts, PatchCovers
<1> QED BY <1>1, <1>2, <1>3, <1>4

-----------------------------------------------------------------------------
(***************************************************************************)
(* The steps of the plan.                                                  *)
(***************************************************************************)

\* What the last two calls of a detour have returned is well typed before they
\* are made, and so is the plan.
LEMMA NothingYet ==
    /\ NoEmission \in EmitResults
    /\ NoPlan \in [patch: Nat, overwrite: Nat, trampoline: Nat, near: BOOLEAN,
                   min: Int, max: Int, clobbers: SUBSET Regs, hazards: SUBSET Hazards]
<1>1. "OK" \in Statuses
  BY DEF Statuses
<1> QED BY <1>1 DEF NoEmission, Refused, EmitResults, NoPlan

\* The hazards of no instruction.
LEMMA NoHazards ==
    ASSUME NEW m, NEW c
    PROVE  HazardsOf(m, c, 0) = {}
  BY DEF HazardsOf

\* A detour starts in the invariant.
LEMMA DetourInitInv ==
    ASSUME DetourInit
    PROVE  DetourInv
<1>1. /\ DecodeInit /\ WorkInit /\ need = 0 /\ room = MaxBlock
      /\ raddr = 0 /\ cont = 0 /\ cap = 0 /\ allowed = {} /\ bmode \in BranchModes
      /\ phase = "size" /\ replacement \in Replacements /\ override \in Overrides
      /\ plan = NoPlan /\ emitMax = 0 /\ analyzed = 0
      /\ entry = NoEmission /\ padding = NoEmission
  BY DEF DetourInit
<1>2. /\ MaxBlock \in Nat \ {0} /\ replacement \in Int /\ override \in Nat
  BY <1>1, BlockAssumption, DetourAssumption
<1>3. CallBegins
  BY <1>1, <1>2 DEF CallBegins
<1>4. RelocateInv
  BY <1>3, CallBeginsInv
<1>5. /\ insts = <<>> /\ total = 0 /\ Len(insts) = 0
      /\ code \in Seq(Inst) /\ Len(code) \in Nat
  BY <1>4 DEF DecodeInit, CallBegins, RelocateInv, TypeOK, DecodeTypeOK, DetourInit
<1>6. PrefixInv
  <2>1. \A k \in 1..Len(code) : Decodable(mode, code[k])
    BY <1>1, DecoderAssumption DEF DecodeInit
  <2>2. total % PaddingUnit(mode) = 0
    BY <1>5 DEF PaddingUnit
  <2> QED BY <1>2, <1>5, <2>1, <2>2 DEF PrefixInv
<1>7. ArgumentInv
  BY <1>1, <1>2, <1>4, <1>5, NothingYet
     DEF ArgumentInv, DetourTypeOK, RelocateInv, Phases, DecodeInit
<1>8. PlanningInv
  BY <1>1 DEF PlanningInv, Unplaced
<1>9. AnalysisInv /\ PlannedInv
  BY <1>1 DEF AnalysisInv, PlannedInv, Planned
<1> QED BY <1>4, <1>6, <1>7, <1>8, <1>9 DEF DetourInv

\* While nothing of the decoder or the relocator changes, their invariants stay.
LEMMA NothingMoves ==
    ASSUME RelocateInv, PrefixInv, UNCHANGED vars
    PROVE  RelocateInv' /\ PrefixInv'
<1>1. RelocateInv'
  BY RelocateStepInv
<1> QED BY <1>1 DEF PrefixInv, vars, decodeVars

\* The size check, whatever it answers.
LEMMA SizeInv ==
    ASSUME DetourInv, PlanRefused \/ PlanSized
    PROVE  DetourInv'
<1>1. /\ phase = "size" /\ phase' \in {"refused", "decode"}
      /\ UNCHANGED <<mode, code, tail, room, insts, total, dstatus>>
      /\ UNCHANGED <<raddr, cont, bmode, allowed, cap>>
      /\ UNCHANGED <<rpc, offset, recs, out, clob, hazards, result, status>>
      /\ UNCHANGED <<replacement, override, plan, emitMax, analyzed, entry, padding>>
      /\ phase' = "decode" =>
            /\ Feasible
            /\ need' = IF override > PatchSize.size THEN override ELSE PatchSize.size
      /\ phase' = "refused" => need' = need
  BY DEF PlanRefused, PlanSized, Planning, decodeVars, inputVars, argVars, workVars, Feasible
<1>2. /\ DecodeInit /\ WorkInit /\ need = 0 /\ plan = NoPlan /\ emitMax = 0 /\ analyzed = 0
      /\ entry = NoEmission /\ padding = NoEmission
  BY <1>1 DEF DetourInv, PlanningInv, Unplaced
<1>3. /\ mode \in Modes /\ bmode \in BranchModes /\ replacement \in Int /\ override \in Nat
      /\ Origin \in Int /\ need \in Nat
  BY BlockAssumption DEF DetourInv, ArgumentInv, RelocateInv, TypeOK, DecodeTypeOK
<1>4. Feasible => PatchSize.size \in Nat
  BY <1>3, PatchCosts DEF Feasible, PatchSize, RealModes
<1>5. need' \in Nat /\ (phase' = "decode" => need' >= PatchSize.size)
  BY <1>1, <1>3, <1>4
<1>6. CallBegins'
  <2>1. DecodeInit'
    BY <1>1, <1>2 DEF DecodeInit
  <2>2. WorkInit'
    BY <1>1, <1>2 DEF WorkInit
  <2> QED BY <1>1, <1>5, <2>1, <2>2
          DEF DetourInv, RelocateInv, TypeOK, DecodeTypeOK, CallBegins
<1>7. RelocateInv'
  BY <1>6, CallBeginsInv, PTL
<1>8. PrefixInv'
  BY <1>1 DEF DetourInv, PrefixInv
<1>9. ArgumentInv'
  BY <1>1, <1>7 DEF DetourInv, ArgumentInv, DetourTypeOK, RelocateInv, Phases
<1>10. PatchSize' = PatchSize /\ BackBound' = BackBound
  BY <1>1 DEF PatchSize, BackBound
<1>11. PlanningInv'
  <2>1. WorkInit'
    BY <1>1, <1>2 DEF WorkInit
  <2>2. phase' = "decode" => Feasible'
    BY <1>1, <1>10 DEF Feasible
  <2> QED BY <1>1, <1>2, <1>5, <1>10, <2>1, <2>2 DEF PlanningInv
<1>12. AnalysisInv' /\ PlannedInv'
  BY <1>1 DEF AnalysisInv, PlannedInv, Planned
<1> QED BY <1>7, <1>8, <1>9, <1>11, <1>12 DEF DetourInv

\* A step of the decoder extends the prefix.
LEMMA DecodeStepPrefix ==
    ASSUME BlockInv, PrefixInv, DecodeStep
    PROVE  PrefixInv'
<1>1. CASE DecodeOne
  <2> DEFINE n    == Len(insts)
             inst == code[n + 1]
             new  == [address |-> Origin + total, inst |-> inst]
  <2>1. /\ n < Len(code) /\ insts' = Append(insts, new) /\ total' = total + inst.size
        /\ n < MaxBlock
        /\ UNCHANGED <<mode, code>>
    BY <1>1 DEF DecodeOne, Wanting
  <2>2. /\ insts \in Seq(Decoded) /\ code \in Seq(Inst) /\ mode \in Modes
        /\ total \in Nat /\ n \in Nat /\ Origin \in Int /\ MaxBlock \in Nat
    BY BlockAssumption DEF BlockInv, DecodeTypeOK
  <2>3. n + 1 \in 1..Len(code) /\ inst \in Inst
    BY <2>1, <2>2
  <2>4. Decodable(mode, inst)
    BY <2>3 DEF PrefixInv
  <2>5. new.inst = inst /\ Origin <= new.address
    BY <2>2
  <2> HIDE DEF inst
  <2>6. inst.size \in Nat
    BY <2>3 DEF Inst, MaxInstBytes
  <2>7. new \in Decoded
    BY <2>2, <2>3, <2>6 DEF Decoded
  <2> HIDE DEF new
  <2>8. /\ Len(insts') = n + 1 /\ insts'[n + 1] = new
        /\ \A k \in 1..n : insts'[k] = insts[k]
    BY <2>1, <2>2, <2>7
  <2>9. \A k \in 1..Len(insts') : insts'[k].inst = code[k] /\ Origin <= insts'[k].address
    <3> SUFFICES ASSUME NEW k \in 1..(n + 1)
                 PROVE  insts'[k].inst = code[k] /\ Origin <= insts'[k].address
      BY <2>8
    <3>1. k \in 1..n \/ k = n + 1
      BY <2>2
    <3>2. CASE k \in 1..n
      BY <2>8, <3>2 DEF PrefixInv
    <3>3. CASE k = n + 1
      BY <2>5, <2>8, <3>3 DEF inst
    <3> QED BY <3>1, <3>2, <3>3
  <2>10. mode \notin VmModes => total' % PaddingUnit(mode) = 0
    <3> SUFFICES ASSUME mode \in RealModes
                 PROVE  total' % PaddingUnit(mode) = 0
      BY <2>2 DEF RealModes
    <3>1. inst.size % PaddingUnit(mode) = 0
      BY <2>3, <2>4, UnitSize
    <3>2. total % PaddingUnit(mode) = 0
      BY DEF PrefixInv, RealModes
    <3>3. total \in Int /\ inst.size \in Int
      BY <2>2, <2>6
    <3>4. (total + inst.size) % PaddingUnit(mode) = 0
      BY <3>1, <3>2, <3>3, UnitSum
    <3> QED BY <2>1, <3>4 DEF inst
  <2> QED BY <2>1, <2>2, <2>8, <2>9, <2>10 DEF PrefixInv
<1>2. CASE DecodeFails \/ LoopEnds
  BY <1>2 DEF DecodeFails, LoopEnds, PrefixInv
<1> QED BY <1>1, <1>2 DEF DecodeStep

\* The decoding of the plan, and its failure.
LEMMA PlanDecodingInv ==
    ASSUME DetourInv, PlanDecoding \/ PlanUndecodable
    PROVE  DetourInv'
<1>1. /\ phase = "decode" /\ phase' \in {"refused", "decode"}
      /\ (DecodeStep /\ phase' = phase) \/ (UNCHANGED decodeVars /\ phase' = "refused")
      /\ UNCHANGED <<raddr, cont, bmode, allowed, cap>>
      /\ UNCHANGED <<rpc, offset, recs, out, clob, hazards, result, status>>
      /\ UNCHANGED <<replacement, override, plan, emitMax, analyzed, entry, padding>>
  BY DEF PlanDecoding, PlanUndecodable, Planning, argVars, workVars
<1>2. WorkInit /\ Feasible /\ analyzed = 0
  BY <1>1 DEF DetourInv, PlanningInv, Unplaced
<1>3. RelocateInv' /\ PrefixInv'
  <2>1. CASE DecodeStep
    <3>1. Decoding
      BY <1>1, <1>2, <2>1 DEF Decoding, WorkInit, Feasible, argVars, workVars
    <3>2. RelocateInv'
      BY <3>1, DecodingInv DEF DetourInv
    <3> QED BY <2>1, <3>2, DecodeStepPrefix DEF DetourInv, RelocateInv
  <2>2. CASE UNCHANGED decodeVars
    <3>1. UNCHANGED vars
      BY <1>1, <2>2 DEF vars, argVars, workVars
    <3> QED BY <3>1, NothingMoves DEF DetourInv
  <2> QED BY <1>1, <2>1, <2>2
<1>4. UNCHANGED <<mode, code, tail, need, room>>
  BY <1>1 DEF DecodeStep, DecodeOne, DecodeFails, LoopEnds, decodeVars
<1>5. ArgumentInv'
  <2>1. analyzed' = 0 /\ Len(insts') \in Nat
    BY <1>1, <1>2, <1>3 DEF RelocateInv, TypeOK, DecodeTypeOK
  <2>2. analyzed' \in 0..Len(insts')
    BY <2>1
  <2> QED BY <1>1, <1>3, <1>4, <2>2
          DEF DetourInv, ArgumentInv, DetourTypeOK, RelocateInv, Phases
<1>6. PatchSize' = PatchSize /\ BackBound' = BackBound
  BY <1>1, <1>4 DEF PatchSize, BackBound
<1>7. PlanningInv'
  <2>1. WorkInit'
    BY <1>1, <1>2 DEF WorkInit
  <2>2. Feasible'
    BY <1>2, <1>4, <1>6 DEF Feasible
  <2> QED BY <1>1, <1>4, <1>6, <2>1, <2>2 DEF DetourInv, PlanningInv
<1>8. AnalysisInv' /\ PlannedInv'
  BY <1>1 DEF AnalysisInv, PlannedInv, Planned
<1> QED BY <1>3, <1>5, <1>7, <1>8 DEF DetourInv

\* From the block to the analysis of its instructions.
LEMMA PlanBlockInv ==
    ASSUME DetourInv, PlanBlock
    PROVE  DetourInv'
<1>1. /\ phase = "decode" /\ phase' = "analyze" /\ dstatus = "OK"
      /\ plan' = [plan EXCEPT !.patch = PatchSize.size, !.overwrite = total,
                              !.near = BackBound.near, !.min = BackBound.min,
                              !.max = BackBound.max,
                              !.clobbers = PatchSize.clobbers \cup BackBound.clobbers]
      /\ UNCHANGED vars
      /\ UNCHANGED <<replacement, override, emitMax, analyzed, entry, padding>>
  BY DEF PlanBlock, Planning, vars
<1>2. UNCHANGED <<mode, code, tail, need, room, insts, total, dstatus, bmode, rpc, offset,
                  recs, out, clob, hazards, result, status>>
  BY <1>1 DEF vars, decodeVars, argVars, workVars
<1>3. /\ WorkInit /\ Feasible /\ analyzed = 0 /\ emitMax = 0 /\ plan = NoPlan
      /\ need >= PatchSize.size /\ entry = NoEmission /\ padding = NoEmission
  BY <1>1 DEF DetourInv, PlanningInv, Unplaced
<1>4. /\ mode \in RealModes /\ bmode \in BranchModes /\ replacement \in Int
      /\ Origin \in Int /\ total \in Nat
  BY <1>3, BlockAssumption
     DEF DetourInv, ArgumentInv, RelocateInv, TypeOK, DecodeTypeOK, Feasible, RealModes
<1>5. /\ PatchSize.size \in Nat /\ PatchSize.clobbers \in SUBSET Regs
      /\ BackBound \in Bounds
  BY <1>3, <1>4, PatchCosts, JumpBackBounds DEF Feasible, PatchSize, BackBound
<1>6. RelocateInv' /\ PrefixInv'
  BY <1>1, NothingMoves DEF DetourInv
<1>7. plan' = [patch |-> PatchSize.size, overwrite |-> total, trampoline |-> 0,
               near |-> BackBound.near, min |-> BackBound.min, max |-> BackBound.max,
               clobbers |-> PatchSize.clobbers \cup BackBound.clobbers, hazards |-> {}]
  BY <1>1, <1>3 DEF NoPlan
<1>8. ArgumentInv'
  <2>1. plan' \in [patch: Nat, overwrite: Nat, trampoline: Nat, near: BOOLEAN,
                   min: Int, max: Int, clobbers: SUBSET Regs, hazards: SUBSET Hazards]
    BY <1>4, <1>5, <1>7 DEF Bounds
  <2>2. analyzed' \in 0..Len(insts')
    BY <1>1, <1>2 DEF DetourInv, ArgumentInv, DetourTypeOK
  <2> QED BY <1>1, <1>2, <1>6, <2>1, <2>2
          DEF DetourInv, ArgumentInv, DetourTypeOK, RelocateInv, Phases
<1>9. PatchSize' = PatchSize /\ BackBound' = BackBound
  BY <1>1, <1>2 DEF PatchSize, BackBound
<1>10. PlanningInv'
  <2>1. WorkInit'
    BY <1>2, <1>3 DEF WorkInit
  <2>2. Feasible'
    BY <1>2, <1>3, <1>9 DEF Feasible
  <2> QED BY <1>1, <1>2, <1>3, <1>9, <2>1, <2>2 DEF PlanningInv
<1>11. AnalysisInv'
  <2>1. PlanSays' /\ plan'.overwrite = total' /\ plan'.hazards = {}
    BY <1>2, <1>7, <1>9 DEF PlanSays
  <2>2. plan'.hazards = HazardsOf(mode', code', analyzed')
    BY <1>1, <1>3, <2>1, NoHazards
  <2>3. \E g : BoundsOf(g, mode', code', analyzed') /\ g[analyzed'] = emitMax'
    <3> DEFINE g == [k \in 0..0 |-> 0]
    <3>1. BoundsOf(g, mode', code', 0) /\ g[0] = 0
      BY DEF BoundsOf
    <3> QED BY <1>1, <1>3, <3>1
  <2> QED BY <2>1, <2>2, <2>3 DEF AnalysisInv
<1>12. PlannedInv'
  BY <1>1 DEF PlannedInv, Planned
<1> QED BY <1>6, <1>8, <1>10, <1>11, <1>12 DEF DetourInv

\* One more summand.
LEMMA BoundsGrow ==
    ASSUME NEW g, NEW m \in Modes, NEW c \in Seq(Inst), NEW n \in Nat, n < Len(c),
           BoundsOf(g, m, c, n)
    PROVE  \E h : /\ BoundsOf(h, m, c, n + 1)
                 /\ h[n + 1] = g[n] + Analyze(m, c[n + 1]).max
<1> DEFINE step == Analyze(m, c[n + 1]).max
           h    == [k \in 0..(n + 1) |-> IF k = n + 1 THEN g[n] + step ELSE g[k]]
<1>1. step \in Nat
  <2>1. c[n + 1] \in Inst
    OBVIOUS
  <2> QED BY <2>1, AnalysisType
<1> HIDE DEF step
<1>2. /\ g \in [0..n -> Nat] /\ g[0] = 0
      /\ \A k \in 1..n : g[k] = g[k - 1] + Analyze(m, c[k]).max
      /\ \A k \in 0..n : g[k] <= g[n]
  BY DEF BoundsOf
<1>3. \A k \in 0..(n + 1) : k = n + 1 \/ k \in 0..n
  OBVIOUS
<1>4. h[n + 1] = g[n] + step /\ \A k \in 0..n : h[k] = g[k]
  OBVIOUS
<1>5. h \in [0..(n + 1) -> Nat]
  BY <1>1, <1>2, <1>3
<1> HIDE DEF h
<1>6. \A k \in 1..(n + 1) : h[k] = h[k - 1] + Analyze(m, c[k]).max
  <2> SUFFICES ASSUME NEW k \in 1..(n + 1)
               PROVE  h[k] = h[k - 1] + Analyze(m, c[k]).max
    OBVIOUS
  <2>1. CASE k = n + 1
    BY <1>4, <2>1 DEF step
  <2>2. CASE k # n + 1
    <3>1. k \in 1..n /\ k \in 0..n /\ k - 1 \in 0..n
      BY <2>2
    <3> QED BY <1>2, <1>4, <3>1
  <2> QED BY <2>1, <2>2
<1>7. \A k \in 0..(n + 1) : h[k] <= h[n + 1]
  <2> SUFFICES ASSUME NEW k \in 0..(n + 1)
               PROVE  h[k] <= h[n + 1]
    OBVIOUS
  <2>1. CASE k = n + 1
    BY <1>5, <2>1
  <2>2. CASE k \in 0..n
    <3>1. g[k] \in Nat /\ g[n] \in Nat /\ g[k] <= g[n] /\ h[k] = g[k]
      BY <1>2, <1>4, <2>2
    <3> QED BY <1>1, <1>4, <3>1
  <2> QED BY <1>3, <2>1, <2>2
<1>8. h[0] = 0
  BY <1>2, <1>4
<1>9. BoundsOf(h, m, c, n + 1)
  BY <1>5, <1>6, <1>7, <1>8 DEF BoundsOf
<1> QED BY <1>4, <1>9 DEF step

\* The hazards of a code, instruction by instruction.
LEMMA HazardsGrow ==
    ASSUME NEW m, NEW c, NEW n \in Nat
    PROVE  HazardsOf(m, c, n + 1) = HazardsOf(m, c, n) \cup Analyze(m, c[n + 1]).hazards
<1>1. 1..(n + 1) = (1..n) \cup {n + 1}
  OBVIOUS
<1> QED BY <1>1 DEF HazardsOf

\* One instruction more is analyzed, or refused.
LEMMA AnalyzeNextInv ==
    ASSUME DetourInv, AnalyzeNext
    PROVE  DetourInv'
<1> DEFINE sem == Analyze(mode, insts[analyzed + 1].inst)
<1>1. /\ phase = "analyze" /\ phase' \in {"analyze", "refused"} /\ analyzed < Len(insts)
      /\ emitMax' = emitMax + sem.max /\ analyzed' = analyzed + 1
      /\ plan' = [plan EXCEPT !.hazards = plan.hazards \cup sem.hazards]
      /\ UNCHANGED vars
      /\ UNCHANGED <<replacement, override, entry, padding>>
  BY DEF AnalyzeNext, Planning, vars
<1>2. UNCHANGED <<mode, code, tail, need, room, insts, total, dstatus, bmode, rpc, offset,
                  recs, out, clob, hazards, result, status>>
  BY <1>1 DEF vars, decodeVars, argVars, workVars
<1>3. /\ WorkInit /\ Feasible /\ need >= PatchSize.size
      /\ entry = NoEmission /\ padding = NoEmission
  BY <1>1 DEF DetourInv, PlanningInv, Unplaced
<1>4. /\ mode \in Modes /\ code \in Seq(Inst) /\ insts \in Seq(Decoded)
      /\ analyzed \in 0..Len(insts) /\ analyzed \in Nat /\ emitMax \in Nat
      /\ Len(insts) \in Nat /\ Len(insts) <= Len(code)
      /\ plan \in [patch: Nat, overwrite: Nat, trampoline: Nat, near: BOOLEAN,
                   min: Int, max: Int, clobbers: SUBSET Regs, hazards: SUBSET Hazards]
  BY DEF DetourInv, ArgumentInv, DetourTypeOK, RelocateInv, TypeOK, DecodeTypeOK, PrefixInv
<1>5. /\ sem = Analyze(mode, code[analyzed + 1])
      /\ sem.max \in Nat /\ sem.hazards \in SUBSET Hazards
  <2>1. analyzed + 1 \in 1..Len(insts) /\ analyzed + 1 \in 1..Len(code)
    BY <1>1, <1>4
  <2>2. insts[analyzed + 1].inst = code[analyzed + 1]
    BY <2>1 DEF DetourInv, PrefixInv
  <2>3. code[analyzed + 1] \in Inst
    BY <1>4, <2>1
  <2> QED BY <1>4, <2>2, <2>3, AnalysisType
<1>6. RelocateInv' /\ PrefixInv'
  BY <1>1, NothingMoves DEF DetourInv
<1> HIDE DEF sem
<1>7. ArgumentInv'
  <2>1. plan' \in [patch: Nat, overwrite: Nat, trampoline: Nat, near: BOOLEAN,
                   min: Int, max: Int, clobbers: SUBSET Regs, hazards: SUBSET Hazards]
    BY <1>1, <1>4, <1>5
  <2>2. analyzed' \in 0..Len(insts') /\ emitMax' \in Nat
    BY <1>1, <1>2, <1>4, <1>5
  <2> QED BY <1>1, <1>2, <1>6, <2>1, <2>2
          DEF DetourInv, ArgumentInv, DetourTypeOK, RelocateInv, Phases
<1>8. PatchSize' = PatchSize /\ BackBound' = BackBound
  BY <1>1, <1>2 DEF PatchSize, BackBound
<1>9. PlanningInv'
  <2>1. WorkInit'
    BY <1>2, <1>3 DEF WorkInit
  <2>2. Feasible'
    BY <1>2, <1>3, <1>8 DEF Feasible
  <2> QED BY <1>1, <1>2, <1>3, <1>8, <2>1, <2>2 DEF DetourInv, PlanningInv
<1>10. AnalysisInv'
  <2>1. /\ PlanSays /\ plan.overwrite = total
        /\ plan.hazards = HazardsOf(mode, code, analyzed)
    BY <1>1 DEF DetourInv, AnalysisInv
  <2>2. PICK g : BoundsOf(g, mode, code, analyzed) /\ g[analyzed] = emitMax
    BY <1>1 DEF DetourInv, AnalysisInv
  <2>3. /\ plan'.patch = plan.patch /\ plan'.overwrite = plan.overwrite
        /\ plan'.near = plan.near /\ plan'.min = plan.min /\ plan'.max = plan.max
        /\ plan'.clobbers = plan.clobbers /\ plan'.hazards = plan.hazards \cup sem.hazards
    BY <1>1, <1>4
  <2>4. PlanSays' /\ plan'.overwrite = total'
    BY <1>2, <1>8, <2>1, <2>3 DEF PlanSays
  <2>5. plan'.hazards = HazardsOf(mode', code', analyzed')
    BY <1>1, <1>2, <1>4, <1>5, <2>1, <2>3, HazardsGrow
  <2>6. \E h : BoundsOf(h, mode', code', analyzed') /\ h[analyzed'] = emitMax'
    <3>4. analyzed < Len(code)
      BY <1>1, <1>4
    <3>1. PICK h : /\ BoundsOf(h, mode, code, analyzed + 1)
                   /\ h[analyzed + 1] = g[analyzed] + Analyze(mode, code[analyzed + 1]).max
      <4>1. mode \in Modes /\ code \in Seq(Inst) /\ analyzed \in Nat
        BY <1>4
      <4> QED BY <2>2, <3>4, <4>1, BoundsGrow
    <3>2. h[analyzed'] = emitMax'
      BY <1>1, <1>5, <2>2, <3>1
    <3>3. BoundsOf(h, mode', code', analyzed')
      BY <1>1, <1>2, <3>1
    <3> QED BY <3>2, <3>3
  <2> QED BY <2>4, <2>5, <2>6 DEF AnalysisInv
<1>11. PlannedInv'
  BY <1>1 DEF PlannedInv, Planned
<1> QED BY <1>6, <1>7, <1>9, <1>10, <1>11 DEF DetourInv

\* The sizes of a decoded block, read off the addresses of its instructions.
LEMMA BlockSizes ==
    ASSUME DetourInv, dstatus = "OK", need > 0, need \in Nat
    PROVE  /\ Len(insts) \in 1..Len(code) /\ Len(insts) <= MaxBlock
           /\ \A k \in 1..(Len(insts) - 1) : ~code[k].term
           /\ \E f : /\ SizesOf(f, code, Len(insts)) /\ f[Len(insts)] = total
                     /\ \A k \in 0..(Len(insts) - 1) : f[k] < f[Len(insts)]
<1> DEFINE n == Len(insts)
           f == [k \in 0..n |-> IF k = n THEN total ELSE insts[k + 1].address - Origin]
<1>1. /\ insts \in Seq(Decoded) /\ total \in Nat /\ Origin \in Int /\ n \in Nat
      /\ Len(code) \in Nat /\ n <= Len(code) /\ n <= MaxBlock
      /\ \A k \in 1..n : insts[k].inst = code[k] /\ Origin <= insts[k].address
  BY BlockAssumption DEF DetourInv, PrefixInv, RelocateInv, TypeOK, DecodeTypeOK
<1>2. /\ total >= need
      /\ \A k \in 1..n : insts[k].address < Origin + need
      /\ \A k \in 1..n : insts[k].address + insts[k].inst.size
                           = IF k < n THEN insts[k + 1].address ELSE Origin + total
      /\ IF n > 0 THEN insts[1].address = Origin ELSE total = 0
      /\ \A k \in 1..(n - 1) : ~insts[k].inst.term
  BY DEF DetourInv, RelocateInv, BlockInv, OkIsEnough, EachNeeded, Tiled,
         NothingAfterTerminator
<1>3. n > 0
  BY <1>1, <1>2
<1>4. \A k \in 1..n : /\ insts[k].address \in Int
                       /\ insts[k].inst.size \in Nat
  <2> SUFFICES ASSUME NEW k \in 1..n
               PROVE  insts[k].address \in Int /\ insts[k].inst.size \in Nat
    OBVIOUS
  <2>1. insts[k] \in Decoded
    BY <1>1
  <2> QED BY <2>1 DEF Decoded, Inst, MaxInstBytes
<1>5. f[n] = total /\ \A k \in 0..(n - 1) : f[k] = insts[k + 1].address - Origin
  BY <1>1
<1>6. f \in [0..n -> Nat]
  <2> SUFFICES ASSUME NEW k \in 0..n
               PROVE  (IF k = n THEN total ELSE insts[k + 1].address - Origin) \in Nat
    OBVIOUS
  <2>1. CASE k = n
    BY <1>1, <2>1
  <2>2. CASE k # n
    <3>1. k + 1 \in 1..n
      BY <1>1, <2>2
    <3> QED BY <1>1, <1>4, <2>2, <3>1
  <2> QED BY <2>1, <2>2
<1> HIDE DEF f
<1>7. f[0] = 0
  <2>1. 0 \in 0..(n - 1)
    BY <1>1, <1>3
  <2> QED BY <1>1, <1>2, <1>3, <1>5, <2>1
<1>8. \A k \in 1..n : f[k] = f[k - 1] + code[k].size
  <2> SUFFICES ASSUME NEW k \in 1..n
               PROVE  f[k] = f[k - 1] + code[k].size
    OBVIOUS
  <2>1. k - 1 \in 0..(n - 1) /\ (k - 1) + 1 = k
    BY <1>1
  <2>2. f[k - 1] = insts[k].address - Origin /\ insts[k].inst.size = code[k].size
    BY <1>1, <1>5, <2>1
  <2> DEFINE at   == insts[k].address
             size == insts[k].inst.size
             next == IF k < n THEN insts[k + 1].address ELSE Origin + total
  <2>3. at \in Int /\ size \in Nat /\ at + size = next /\ Origin \in Int
    BY <1>1, <1>2, <1>4
  <2>4. f[k] = next - Origin
    <3>1. CASE k = n
      BY <1>1, <1>5, <3>1
    <3>2. CASE k # n
      <4>1. k \in 0..(n - 1) /\ k < n
        BY <1>1, <3>2
      <4> QED BY <1>5, <4>1
    <3> QED BY <3>1, <3>2
  <2>5. f[k - 1] = at - Origin /\ code[k].size = size
    BY <2>2
  <2> HIDE DEF at, size, next
  <2> QED BY <2>3, <2>4, <2>5
<1>9. \A k \in 0..(n - 1) : f[k] < f[n]
  <2> SUFFICES ASSUME NEW k \in 0..(n - 1)
               PROVE  f[k] < f[n]
    OBVIOUS
  <2>1. k + 1 \in 1..n
    BY <1>1
  <2> QED BY <1>1, <1>2, <1>4, <1>5, <2>1
<1>10. \A k \in 1..(n - 1) : ~code[k].term
  <2> SUFFICES ASSUME NEW k \in 1..(n - 1)
               PROVE  ~code[k].term
    OBVIOUS
  <2>1. k \in 1..n
    BY <1>1
  <2> QED BY <1>1, <1>2, <2>1
<1>11. n \in 1..Len(code)
  BY <1>1, <1>3
<1>12. SizesOf(f, code, n)
  BY <1>6, <1>7, <1>8 DEF SizesOf
<1> HIDE DEF n
<1>13. n \in 1..Len(code) /\ n <= MaxBlock /\ (\A k \in 1..(n - 1) : ~code[k].term)
  BY <1>1, <1>10, <1>11
<1> QED BY <1>5, <1>9, <1>12, <1>13 DEF n

\* The analysis is through: the plan is made.
LEMMA PlanDoneInv ==
    ASSUME DetourInv, PlanDone
    PROVE  DetourInv'
<1>1. /\ phase = "analyze" /\ phase' = "planned" /\ analyzed = Len(insts)
      /\ plan' = [plan EXCEPT !.trampoline = emitMax + BackBound.size]
      /\ UNCHANGED vars
      /\ UNCHANGED <<replacement, override, emitMax, analyzed, entry, padding>>
  BY DEF PlanDone, Planning, vars
<1>2. UNCHANGED <<mode, code, tail, need, room, insts, total, dstatus, bmode, rpc, offset,
                  recs, out, clob, hazards, result, status>>
  BY <1>1 DEF vars, decodeVars, argVars, workVars
<1>3. /\ WorkInit /\ Feasible /\ need >= PatchSize.size /\ dstatus = "OK"
      /\ entry = NoEmission /\ padding = NoEmission
  BY <1>1 DEF DetourInv, PlanningInv, Unplaced
<1>4. /\ mode \in RealModes /\ bmode \in BranchModes /\ replacement \in Int
      /\ Origin \in Int /\ total \in Nat /\ need \in Nat /\ emitMax \in Nat
      /\ plan \in [patch: Nat, overwrite: Nat, trampoline: Nat, near: BOOLEAN,
                   min: Int, max: Int, clobbers: SUBSET Regs, hazards: SUBSET Hazards]
  BY <1>3, BlockAssumption
     DEF DetourInv, ArgumentInv, DetourTypeOK, RelocateInv, TypeOK, DecodeTypeOK, Feasible,
         RealModes
<1>5. PatchSize.size \in Nat /\ BackBound.size \in Nat
  <2>1. PatchSize.size \in Nat
    BY <1>3, <1>4, PatchCosts DEF Feasible, PatchSize
  <2>2. BackBound \in Bounds
    BY <1>3, <1>4, JumpBackBounds DEF Feasible, BackBound
  <2> QED BY <2>1, <2>2 DEF Bounds
<1>6. RelocateInv' /\ PrefixInv'
  BY <1>1, NothingMoves DEF DetourInv
<1>7. /\ plan'.patch = plan.patch /\ plan'.overwrite = plan.overwrite
      /\ plan'.near = plan.near /\ plan'.min = plan.min /\ plan'.max = plan.max
      /\ plan'.clobbers = plan.clobbers /\ plan'.hazards = plan.hazards
      /\ plan'.trampoline = emitMax + BackBound.size
  BY <1>1, <1>4
<1>8. ArgumentInv'
  <2>1. plan' \in [patch: Nat, overwrite: Nat, trampoline: Nat, near: BOOLEAN,
                   min: Int, max: Int, clobbers: SUBSET Regs, hazards: SUBSET Hazards]
    <3>1. emitMax + BackBound.size \in Nat
      BY <1>4, <1>5
    <3> QED BY <1>1, <1>4, <3>1
  <2>2. analyzed' \in 0..Len(insts')
    BY <1>1, <1>2 DEF DetourInv, ArgumentInv, DetourTypeOK
  <2> QED BY <1>1, <1>2, <1>6, <2>1, <2>2
          DEF DetourInv, ArgumentInv, DetourTypeOK, RelocateInv, Phases
<1>9. PatchSize' = PatchSize /\ BackBound' = BackBound
  BY <1>1, <1>2 DEF PatchSize, BackBound
<1>10. PlanningInv'
  <2>1. WorkInit'
    BY <1>2, <1>3 DEF WorkInit
  <2>2. Feasible'
    BY <1>2, <1>3, <1>9 DEF Feasible
  <2> QED BY <1>1, <1>2, <1>3, <1>9, <2>1, <2>2 DEF PlanningInv
<1>11. AnalysisInv'
  BY <1>1 DEF AnalysisInv
<1>12. PlannedInv'
  <2>0. PICK n : n = Len(insts)
    OBVIOUS
  <2>1. /\ PlanSays /\ plan.overwrite = total /\ plan.hazards = HazardsOf(mode, code, n)
    BY <1>1, <2>0 DEF DetourInv, AnalysisInv
  <2>2. PICK g : BoundsOf(g, mode, code, n) /\ g[n] = emitMax
    BY <1>1, <2>0 DEF DetourInv, AnalysisInv
  <2>3. need > 0 /\ total >= need /\ PatchSize.size <= total
    <3>1. total >= need
      BY <1>3 DEF DetourInv, RelocateInv, BlockInv, OkIsEnough
    <3>2. PatchSize.size # 0
      BY <1>3 DEF Feasible
    <3> QED BY <1>3, <1>4, <1>5, <3>1, <3>2
  <2>4. PICK f : /\ SizesOf(f, code, n) /\ f[n] = total
                 /\ \A k \in 0..(n - 1) : f[k] < f[n]
    BY <1>3, <1>4, <2>0, <2>3, BlockSizes
  <2>5. n \in 1..Len(code) /\ n <= MaxBlock /\ \A k \in 1..(n - 1) : ~code[k].term
    BY <1>3, <1>4, <2>0, <2>3, BlockSizes
  <2>6. total % PaddingUnit(mode) = 0
    BY <1>4 DEF DetourInv, PrefixInv, RealModes
  <2>7. PlanFacts(n, f, g)'
    <3>1. PlanSays'
      BY <1>2, <1>7, <1>9, <2>1 DEF PlanSays
    <3>2. plan'.trampoline = g[n] + BackBound'.size /\ plan'.patch <= f[n]
      BY <1>7, <1>9, <2>1, <2>2, <2>3, <2>4 DEF PlanSays
    <3>3. /\ plan'.overwrite = f[n] /\ f[n] % PaddingUnit(mode') = 0
          /\ plan'.hazards = HazardsOf(mode', code', n)
      BY <1>2, <1>7, <2>1, <2>4, <2>6
    <3>4. /\ SizesOf(f, code', n) /\ BoundsOf(g, mode', code', n)
          /\ \A k \in 1..(n - 1) : ~code'[k].term
      BY <1>2, <2>2, <2>4, <2>5
    <3> QED BY <1>2, <2>4, <2>5, <3>1, <3>2, <3>3, <3>4 DEF PlanFacts
  <2>8. \E i, x, y : PlanFacts(i, x, y)'
    BY <2>7
  <2> QED BY <1>1, <2>8 DEF PlannedInv
<1> QED BY <1>6, <1>8, <1>10, <1>11, <1>12 DEF DetourInv

-----------------------------------------------------------------------------
(***************************************************************************)
(* The calls that carry the plan out.                                      *)
(***************************************************************************)

\* What a plan says stays true while the plan and what it was made of stay.
LEMMA PlanFactsKept ==
    ASSUME NEW n, NEW f, NEW g, PlanFacts(n, f, g),
           UNCHANGED <<mode, code, bmode, replacement, plan>>
    PROVE  PlanFacts(n, f, g)'
<1>1. PatchSize' = PatchSize /\ BackBound' = BackBound
  BY DEF PatchSize, BackBound
<1> QED BY <1>1 DEF PlanFacts, PlanSays

\* The numbers of a plan.
LEMMA PlanNumbers ==
    ASSUME NEW n, NEW f, NEW g, PlanFacts(n, f, g)
    PROVE  /\ n \in Nat /\ n > 0 /\ n <= Len(code)
           /\ f \in [0..n -> Nat] /\ f[0] = 0 /\ f[n] \in Nat /\ f[n] > 0
           /\ g \in [0..n -> Nat] /\ g[0] = 0 /\ g[n] \in Nat
<1>1. n \in Nat /\ n > 0 /\ n <= Len(code)
  BY DEF PlanFacts
<1>2. f \in [0..n -> Nat] /\ f[0] = 0 /\ g \in [0..n -> Nat] /\ g[0] = 0
  BY DEF PlanFacts, SizesOf, BoundsOf
<1>3. 0 \in 0..(n - 1) /\ n \in 0..n
  BY <1>1
<1>4. f[0] < f[n]
  BY <1>3 DEF PlanFacts
<1> QED BY <1>1, <1>2, <1>3, <1>4

\* A trampoline is placed and the relocation called.
LEMMA PlaceTrampolineInv ==
    ASSUME DetourInv, PlaceTrampoline
    PROVE  DetourInv'
<1>1. /\ phase = "planned" /\ phase' = "relocate"
      /\ raddr' \in Placements /\ cont' = Origin + plan.overwrite
      /\ cap' = plan.trampoline /\ allowed' = plan.clobbers
      /\ need' = AtLeastOne(plan.overwrite)
      /\ insts' = <<>> /\ total' = 0 /\ dstatus' = "RUNNING" /\ analyzed' = 0
      /\ UNCHANGED <<mode, code, tail, room, bmode>>
      /\ UNCHANGED <<rpc, offset, recs, out, clob, hazards, result, status>>
      /\ UNCHANGED <<replacement, override, plan, emitMax, entry, padding>>
  BY DEF PlaceTrampoline, inputVars, workVars
<1>2. WorkInit /\ Feasible /\ entry = NoEmission /\ padding = NoEmission
  BY <1>1 DEF DetourInv, PlanningInv, Unplaced
<1>3. /\ room \in Nat \ {0} /\ bmode \in BranchModes /\ Origin \in Int
      /\ plan \in [patch: Nat, overwrite: Nat, trampoline: Nat, near: BOOLEAN,
                   min: Int, max: Int, clobbers: SUBSET Regs, hazards: SUBSET Hazards]
  BY <1>1, BlockAssumption
     DEF DetourInv, ArgumentInv, DetourTypeOK, RelocateInv, TypeOK, DecodeTypeOK
<1>4. PICK n, f, g : PlanFacts(n, f, g)
  BY <1>1 DEF DetourInv, PlannedInv, Planned
<1>5. /\ n \in Nat /\ n > 0 /\ f[0] = 0 /\ f[n] \in Nat /\ f[n] > 0 /\ g[0] = 0
      /\ plan.overwrite = f[n]
  BY <1>4, PlanNumbers DEF PlanFacts
<1>6. need' = f[n]
  BY <1>1, <1>5 DEF AtLeastOne
<1>7. WorkInit'
  BY <1>1, <1>2 DEF WorkInit
<1>8. CallBegins'
  <2>1. DecodeInit'
    <3>1. \E p \in Programs : mode = p.mode /\ code = p.code /\ tail = p.tail
      BY DEF DetourInv, ArgumentInv
    <3> QED BY <1>1, <3>1 DEF DecodeInit
  <2>2. raddr' \in Int /\ cont' \in Int
    BY <1>1, <1>3, RelocateAssumption
  <2>3. cap' \in Nat /\ allowed' \in SUBSET Regs
    BY <1>1, <1>3
  <2> QED BY <1>1, <1>3, <1>5, <1>6, <1>7, <2>1, <2>2, <2>3 DEF CallBegins
<1>9. RelocateInv'
  BY <1>8, CallBeginsInv, PTL
<1>10. Len(insts') = 0 /\ Len(recs') = 0
  BY <1>1, <1>7 DEF WorkInit
<1>11. PrefixInv'
  <2>1. Len(code) \in Nat /\ MaxBlock \in Nat
    BY BlockAssumption DEF DetourInv, RelocateInv, TypeOK, DecodeTypeOK
  <2>2. 0 % PaddingUnit(mode) = 0
    BY DEF PaddingUnit
  <2> QED BY <1>1, <1>10, <2>1, <2>2 DEF DetourInv, PrefixInv
<1>12. ArgumentInv'
  <2>1. analyzed' \in 0..Len(insts')
    BY <1>1, <1>10
  <2> QED BY <1>1, <1>9, <2>1
          DEF DetourInv, ArgumentInv, DetourTypeOK, RelocateInv, Phases
<1>13. PatchSize' = PatchSize /\ BackBound' = BackBound
  BY <1>1 DEF PatchSize, BackBound
<1>14. PlanningInv'
  <2>1. Feasible'
    BY <1>1, <1>2, <1>13 DEF Feasible
  <2> QED BY <1>1, <1>2, <2>1 DEF PlanningInv, Unplaced
<1>15. AnalysisInv'
  BY <1>1 DEF AnalysisInv
<1>16. PlannedInv'
  <2>1. PlanFacts(n, f, g)'
    BY <1>1, <1>4, PlanFactsKept
  <2>2. RunFacts(n, f, g)'
    <3>1. /\ rpc' = "decode" /\ offset' = 0 /\ hazards' = {} /\ status' = "NONE"
      BY <1>7 DEF WorkInit
    <3>2. hazards' = HazardsOf(mode', code', Len(recs'))
      BY <1>10, <3>1, NoHazards
    <3>3. offset' % PaddingUnit(mode') = 0
      BY <3>1 DEF PaddingUnit
    <3>4. offset' <= g[Len(recs')]
      BY <1>5, <1>10, <3>1
    <3> QED BY <1>1, <1>5, <1>6, <1>10, <3>1, <3>2, <3>3, <3>4 DEF RunFacts
  <2>3. PatchFacts'
    BY <1>1 DEF PatchFacts
  <2>4. \E i, x, y : (PlanFacts(i, x, y) /\ RunFacts(i, x, y))'
    BY <2>1, <2>2
  <2> QED BY <2>3, <2>4 DEF PlannedInv
<1> QED BY <1>9, <1>11, <1>12, <1>14, <1>15, <1>16 DEF DetourInv

\* The relocation decodes the block that was planned: it cannot fail to, stops
\* for no terminator before its end, and ends where the plan ended.
LEMMA RunDecoding ==
    ASSUME DetourInv, phase = "relocate", Decoding, plan' = plan,
           NEW n, NEW f, NEW g, PlanFacts(n, f, g), RunFacts(n, f, g)
    PROVE  RunFacts(n, f, g)'
<1> DEFINE k == Len(insts)
<1>1. /\ rpc = "decode" /\ UNCHANGED <<rpc, offset, recs, out, clob, hazards, result, status>>
      /\ UNCHANGED <<raddr, cont, bmode, allowed, cap, mode, code, tail, need, room>>
  BY DEF Decoding, argVars, workVars, DecodeStep, DecodeOne, DecodeFails, LoopEnds
<1>2. /\ n \in Nat /\ n > 0 /\ n <= Len(code) /\ f \in [0..n -> Nat] /\ f[n] \in Nat
      /\ \A i \in 0..(n - 1) : f[i] < f[n]
      /\ \A i \in 1..n : f[i] = f[i - 1] + code[i].size
      /\ \A i \in 1..(n - 1) : ~code[i].term
  BY PlanNumbers DEF PlanFacts, SizesOf
<1>3. /\ k <= n /\ total = f[k] /\ need = f[n] /\ n <= MaxBlock /\ room = MaxBlock
      /\ cap = plan.trampoline /\ allowed = plan.clobbers /\ cont = Origin + plan.overwrite
  BY DEF RunFacts, PlanFacts, DetourInv, ArgumentInv
<1>4. k \in Nat /\ MaxBlock \in Nat /\ Len(code) \in Nat /\ total \in Nat
      /\ insts \in Seq(Decoded) /\ code \in Seq(Inst)
  BY BlockAssumption DEF DetourInv, RelocateInv, TypeOK, DecodeTypeOK
<1>5. offset = 0 /\ recs = <<>> /\ Len(recs) = 0 /\ status = "NONE"
  BY <1>1 DEF DetourInv, RelocateInv, PhaseInv
<1>6. k < n => Wanting
  <2> SUFFICES ASSUME k < n
               PROVE  Wanting
    OBVIOUS
  <2>1. k \in 0..(n - 1)
    BY <1>2, <1>4
  <2>2. total < need
    BY <1>2, <1>3, <2>1
  <2>3. k < MaxBlock
    BY <1>2, <1>3, <1>4
  <2> QED BY <1>3, <2>2, <2>3 DEF Wanting
<1>7. Wanting => k < n
  BY <1>2, <1>3, <1>4 DEF Wanting
<1>8. PrefixInv'
  BY DecodeStepPrefix DEF Decoding, DetourInv, RelocateInv
<1>9. /\ k' <= n /\ total' = f[k'] /\ dstatus' \in {"RUNNING", "OK"} /\ k <= k'
      /\ dstatus' = "OK" => k' = n
  <2>1. CASE DecodeOne
    <3> DEFINE inst == code[k + 1]
    <3>1. k < n
      BY <1>7, <2>1 DEF DecodeOne
    <3>2. k + 1 \in 1..n /\ k + 1 \in 1..Len(code) /\ (k + 1) - 1 = k
      BY <1>2, <1>4, <3>1
    <3>3. f[k + 1] = f[k] + inst.size
      BY <1>2, <3>2
    <3>4. /\ Len(insts') = k + 1 /\ total' = total + inst.size
      BY <1>4, <2>1 DEF DecodeOne
    <3>5. total' = f[k + 1]
      BY <1>3, <3>3, <3>4
    <3>6. dstatus' = IF inst.term /\ total' < need THEN "OUTPUT_TOO_SMALL" ELSE "RUNNING"
      BY <2>1 DEF DecodeOne
    <3>7. ~(inst.term /\ total' < need)
      <4>1. CASE k + 1 = n
        <5>1. total' = need
          BY <1>3, <3>5, <4>1
        <5> QED BY <1>2, <1>3, <5>1
      <4>2. CASE k + 1 # n
        <5>1. k + 1 \in 1..(n - 1)
          BY <1>2, <1>4, <3>2, <4>2
        <5> QED BY <1>2, <5>1
      <4> QED BY <4>1, <4>2
    <3>8. dstatus' = "RUNNING"
      BY <3>6, <3>7
    <3>9. Len(insts') <= n /\ k <= Len(insts')
      BY <1>2, <1>4, <3>1, <3>4
    <3> QED BY <3>4, <3>5, <3>8, <3>9
  <2>2. CASE DecodeFails
    BY <1>2, <1>4, <1>7, <2>2 DEF DecodeFails
  <2>3. CASE LoopEnds
    <3>1. k = n
      BY <1>2, <1>3, <1>4, <1>6, <2>3 DEF LoopEnds
    <3>2. dstatus' = "OK" /\ insts' = insts /\ total' = total
      BY <1>2, <1>3, <2>3, <3>1 DEF LoopEnds
    <3> QED BY <1>2, <1>3, <3>1, <3>2
  <2> QED BY <2>1, <2>2, <2>3 DEF Decoding, DecodeStep
<1>10. hazards' = HazardsOf(mode', code', Len(recs'))
  BY <1>1 DEF RunFacts
<1>11. /\ offset' % PaddingUnit(mode') = 0
       /\ offset' <= g[Len(recs')] /\ status' # "OUTPUT_TOO_SMALL"
  <2>1. offset % PaddingUnit(mode) = 0
    BY DEF RunFacts
  <2>2. g[0] = 0
    BY PlanNumbers
  <2> QED BY <1>1, <1>5, <2>1, <2>2
<1> QED BY <1>1, <1>3, <1>9, <1>10, <1>11 DEF RunFacts

\* What a turn of the relocation loop adds is what the analysis of the plan
\* counted for its instruction.
LEMMA TurnCosts ==
    ASSUME DetourInv, phase = "relocate", RelocateTurn,
           NEW n, NEW f, NEW g, PlanFacts(n, f, g), RunFacts(n, f, g)
    PROVE  /\ Len(recs) \in Nat /\ Len(recs) + 1 \in 1..n
           /\ hazards' = HazardsOf(mode, code, Len(recs) + 1)
           /\ Emission.status = "OK" => (offset + Emission.size) % PaddingUnit(mode) = 0
           /\ WellEstimated =>
                 /\ Emission.status # "OUTPUT_TOO_SMALL"
                 /\ Emission.status = "OK" => offset + Emission.size <= g[Len(recs) + 1]
<1> DEFINE r    == Len(recs)
           inst == code[r + 1]
           max  == Analyze(mode, inst).max
<1>1. /\ rpc = "relocate" /\ r < Len(insts)
      /\ hazards' = hazards \cup Analyze(mode, Current.inst).hazards
  BY DEF RelocateTurn
<1>2. /\ r \in Nat /\ Len(insts) \in Nat /\ offset \in Nat /\ cap \in Nat /\ offset <= cap
      /\ raddr \in Int /\ mode \in RealModes /\ bmode \in BranchModes
      /\ code \in Seq(Inst) /\ Len(code) \in Nat
  <2>1. mode \notin VmModes
    BY DEF DetourInv, PlanningInv, Feasible
  <2> QED BY <2>1 DEF DetourInv, RelocateInv, TypeOK, DecodeTypeOK, BufferInv, RealModes
<1>3. dstatus = "OK" /\ Len(insts) = n
  BY <1>1 DEF DetourInv, RelocateInv, PhaseInv, RunFacts
<1>4. /\ n \in Nat /\ n <= Len(code) /\ g \in [0..n -> Nat]
  BY PlanNumbers
<1>5. r + 1 \in 1..n /\ r + 1 \in 1..Len(code) /\ r + 1 \in 1..Len(insts) /\ (r + 1) - 1 = r
      /\ r \in 0..n /\ r + 1 \in 0..n
  BY <1>1, <1>2, <1>3, <1>4
<1>6. Current.inst = inst /\ inst \in Inst /\ Decodable(mode, inst)
  <2>1. Current.inst = inst
    BY <1>5 DEF Current, DetourInv, PrefixInv
  <2>2. Decodable(mode, inst)
    BY <1>5 DEF DetourInv, PrefixInv
  <2>3. inst \in Inst
    BY <1>2, <1>5
  <2> QED BY <2>1, <2>2, <2>3
<1>7. Emission = RelocateInst(mode, inst, raddr + offset, cap - offset)
  BY <1>6 DEF Emission
<1>8. raddr + offset \in Int /\ cap - offset \in Nat
  BY <1>2
<1>9. Emission.size \in Nat
  BY TurnFacts DEF DetourInv
<1>10. hazards' = HazardsOf(mode, code, r + 1)
  <2>1. hazards = HazardsOf(mode, code, r)
    BY <1>1 DEF RunFacts
  <2> QED BY <1>1, <1>2, <1>6, <2>1, HazardsGrow
<1>11. Emission.status = "OK" => (offset + Emission.size) % PaddingUnit(mode) = 0
  <2>1. WholeUnits(mode, Emission)
    BY <1>2, <1>6, <1>7, <1>8, RelocationCosts
  <2>2. offset % PaddingUnit(mode) = 0
    BY DEF RunFacts
  <2>3. offset \in Int /\ Emission.size \in Int
    BY <1>2, <1>9
  <2> QED BY <2>1, <2>2, <2>3, UnitSum DEF WholeUnits
<1>12. WellEstimated =>
          /\ Emission.status # "OUTPUT_TOO_SMALL"
          /\ Emission.status = "OK" => offset + Emission.size <= g[r + 1]
  <2> SUFFICES ASSUME WellEstimated
               PROVE  /\ Emission.status # "OUTPUT_TOO_SMALL"
                      /\ Emission.status = "OK" => offset + Emission.size <= g[r + 1]
    OBVIOUS
  <2>1. ~Underestimated(inst)
    BY <1>5, <1>6 DEF WellEstimated, Current
  <2>2. BoundedBy(Emission, max, cap - offset)
    BY <1>2, <1>6, <1>7, <1>8, <2>1, RelocationCosts
  <2>3. g[r + 1] = g[r] + max /\ g[r + 1] <= g[n] /\ plan.trampoline = g[n] + BackBound.size
    BY <1>5 DEF PlanFacts, BoundsOf
  <2>4. offset <= g[r] /\ cap = plan.trampoline
    BY DEF RunFacts
  <2>5. max \in Nat
    BY <1>2, <1>6, AnalysisType DEF RealModes
  <2>6. BackBound.size \in Nat
    <3>1. BackBound \in Bounds
      BY <1>2, JumpBackBounds DEF DetourInv, PlanningInv, Feasible, BackBound
    <3> QED BY <3>1 DEF Bounds
  <2>7. g[r] \in Nat /\ g[r + 1] \in Nat /\ g[n] \in Nat
    BY <1>4, <1>5
  <2> DEFINE low == g[r]
             high == g[r + 1]
             end == g[n]
             back == BackBound.size
             took == Emission.size
  <2>8. /\ high = low + max /\ high <= end /\ cap = end + back /\ offset <= low
        /\ low \in Nat /\ high \in Nat /\ end \in Nat /\ back \in Nat /\ max \in Nat
        /\ took \in Nat /\ offset \in Nat /\ cap \in Nat
    BY <1>2, <1>9, <2>3, <2>4, <2>5, <2>6, <2>7
  <2>9. Emission.status = "OUTPUT_TOO_SMALL" => cap - offset < max
    BY <2>2 DEF BoundedBy
  <2>10. Emission.status = "OK" => took <= max
    BY <2>2 DEF BoundedBy
  <2> HIDE DEF low, high, end, back, took, max
  <2>11. ~(cap - offset < max)
    BY <2>8
  <2>12. took <= max => offset + took <= high
    BY <2>8
  <2> QED BY <2>9, <2>10, <2>11, <2>12 DEF high, took
<1> QED BY <1>2, <1>5, <1>10, <1>11, <1>12

\* A turn that moves its instruction.
LEMMA RunOne ==
    ASSUME DetourInv, phase = "relocate", RelocateOne, plan' = plan,
           NEW n, NEW f, NEW g, PlanFacts(n, f, g), RunFacts(n, f, g)
    PROVE  RunFacts(n, f, g)'
<1>1. /\ RelocateTurn /\ Emission.status = "OK" /\ rpc = "relocate"
      /\ offset' = offset + Emission.size
      /\ recs' = Append(recs, [original |-> Current.address,
                                originalSize |-> Current.inst.size,
                                at |-> offset, size |-> Emission.size])
      /\ UNCHANGED <<raddr, cont, bmode, allowed, cap, rpc, status>>
      /\ UNCHANGED <<mode, code, tail, need, room, insts, total, dstatus>>
  BY DEF RelocateOne, RelocateTurn, decodeVars, argVars
<1>2. recs \in Seq(Records) /\ status = "NONE"
  BY <1>1 DEF DetourInv, RelocateInv, TypeOK, PhaseInv
<1>3. Len(recs') = Len(recs) + 1
  BY <1>1, <1>2
<1>4. /\ hazards' = HazardsOf(mode, code, Len(recs) + 1)
      /\ (offset + Emission.size) % PaddingUnit(mode) = 0
      /\ WellEstimated => offset + Emission.size <= g[Len(recs) + 1]
  BY <1>1, TurnCosts
<1>5. WellEstimated' = WellEstimated
  BY <1>1 DEF WellEstimated
<1> QED BY <1>1, <1>2, <1>3, <1>4, <1>5 DEF RunFacts

\* A turn that ends the call.
LEMMA RunStops ==
    ASSUME DetourInv, phase = "relocate", RelocateRefused \/ RelocateClobbers, plan' = plan,
           NEW n, NEW f, NEW g, PlanFacts(n, f, g), RunFacts(n, f, g)
    PROVE  RunFacts(n, f, g)'
<1>1. /\ RelocateTurn /\ rpc = "relocate" /\ Len(recs) < Len(insts)
      /\ UNCHANGED <<offset, recs, raddr, cont, bmode, allowed, cap>>
      /\ UNCHANGED <<mode, code, tail, need, room, insts, total, dstatus>>
      /\ rpc' = "done"
      /\ \/ status' = Emission.status /\ Emission.status # "OK"
         \/ status' = "FORBIDDEN_CLOBBER"
  BY DEF RelocateRefused, RelocateClobbers, RelocateTurn, decodeVars, argVars
<1>2. dstatus = "OK" /\ Len(recs) \in Nat /\ Len(insts) \in Nat
  BY <1>1 DEF DetourInv, RelocateInv, PhaseInv, TypeOK, DecodeTypeOK
<1>3. status' # "OK" /\ (WellEstimated => status' # "OUTPUT_TOO_SMALL")
  BY <1>1, TurnCosts
<1>4. ~(Len(recs') = Len(insts'))
  BY <1>1, <1>2
<1>5. WellEstimated' = WellEstimated
  BY <1>1 DEF WellEstimated
<1> QED BY <1>1, <1>2, <1>3, <1>4, <1>5 DEF RunFacts

\* The jump back.
LEMMA RunJumpBack ==
    ASSUME DetourInv, phase = "relocate", JumpBack \/ JumpBackFails, plan' = plan,
           NEW n, NEW f, NEW g, PlanFacts(n, f, g), RunFacts(n, f, g)
    PROVE  RunFacts(n, f, g)'
<1>1. /\ rpc = "relocate" /\ Len(recs) = Len(insts)
      /\ UNCHANGED <<offset, recs, hazards, raddr, cont, bmode, allowed, cap>>
      /\ UNCHANGED <<mode, code, tail, need, room, insts, total, dstatus>>
      /\ rpc' = "done" /\ status' = Return.status
  BY DEF JumpBack, JumpBackFails, JumpBackTurn, decodeVars, argVars
<1>2. /\ dstatus = "OK" /\ Len(insts) = n /\ hazards = HazardsOf(mode, code, Len(recs))
  BY <1>1 DEF DetourInv, RelocateInv, PhaseInv, RunFacts
<1>3. Return' = Return
  BY <1>1 DEF Return
<1>4. WellEstimated => Return.status # "OUTPUT_TOO_SMALL"
  <2> SUFFICES ASSUME WellEstimated
               PROVE  Return.status # "OUTPUT_TOO_SMALL"
    OBVIOUS
  <2>1. /\ mode \in RealModes /\ bmode \in BranchModes /\ BackBound.status = "OK"
        /\ raddr \in Int /\ cont \in Int /\ offset \in Nat /\ cap \in Nat /\ offset <= cap
    <3>1. mode \notin VmModes /\ BackBound.status = "OK"
      BY DEF DetourInv, PlanningInv, Feasible
    <3> QED BY <3>1 DEF DetourInv, RelocateInv, TypeOK, DecodeTypeOK, BufferInv, RealModes
  <2>2. raddr + offset \in Int /\ cap - offset \in Nat
    BY <2>1
  <2>3. BoundedBy(EmitJump(mode, raddr + offset, cont, JumpOptions(bmode, allowed), cap - offset),
                  PlanJumpBack(mode, bmode).size, cap - offset)
    BY <2>1, <2>2, JumpBackCosts DEF BackBound
  <2>4. BoundedBy(Return, BackBound.size, cap - offset)
    BY <2>3 DEF Return, BackBound, JumpOptions
  <2>5. BackBound.size \in Nat
    <3>1. BackBound \in Bounds
      BY <2>1, JumpBackBounds DEF BackBound
    <3> QED BY <3>1 DEF Bounds
  <2>6. g[n] \in Nat /\ offset <= g[n] /\ cap = g[n] + BackBound.size
    BY <1>1, <1>2, PlanNumbers DEF PlanFacts, RunFacts
  <2> DEFINE end == g[n]
             back == BackBound.size
  <2>7. /\ end \in Nat /\ back \in Nat /\ offset \in Nat /\ cap \in Nat
        /\ offset <= end /\ cap = end + back
    BY <2>1, <2>5, <2>6
  <2>8. Return.status = "OUTPUT_TOO_SMALL" => cap - offset < back
    BY <2>4 DEF BoundedBy
  <2> HIDE DEF end, back
  <2>9. ~(cap - offset < back)
    BY <2>7
  <2> QED BY <2>8, <2>9
<1>5. WellEstimated' = WellEstimated
  BY <1>1 DEF WellEstimated
<1> HIDE DEF Return
<1> QED BY <1>1, <1>2, <1>3, <1>4, <1>5 DEF RunFacts

\* Every step of the relocation.
LEMMA FillTrampolineInv ==
    ASSUME DetourInv, FillTrampoline
    PROVE  DetourInv'
<1>1. /\ phase = "relocate" /\ Next
      /\ UNCHANGED <<phase, replacement, override, plan, emitMax, analyzed, entry, padding>>
  BY DEF FillTrampoline, detourVars
<1>2. PICK n, f, g : PlanFacts(n, f, g) /\ RunFacts(n, f, g)
  BY <1>1 DEF DetourInv, PlannedInv, Planned
<1>3. Feasible /\ entry = NoEmission /\ padding = NoEmission
  BY <1>1 DEF DetourInv, PlanningInv
<1>4. UNCHANGED <<mode, code, tail, need, room, raddr, cont, bmode, allowed, cap>>
  BY <1>1
     DEF Next, RelocateUnsupported, Decoding, BlockDecoded, BlockRefused, RelocateOne,
         RelocateRefused, RelocateClobbers, JumpBack, JumpBackFails, RelocateTurn,
         JumpBackTurn, DecodeStep, DecodeOne, DecodeFails, LoopEnds, decodeVars, argVars
<1>5. RelocateInv'
  BY <1>1, RelocateStepInv DEF DetourInv
<1>6. PrefixInv' /\ Len(insts) <= Len(insts')
  <2>1. CASE Decoding
    <3>1. PrefixInv'
      BY <2>1, DecodeStepPrefix DEF Decoding, DetourInv, RelocateInv
    <3>2. insts \in Seq(Decoded) /\ Len(insts) \in Nat
      BY DEF DetourInv, RelocateInv, TypeOK, DecodeTypeOK
    <3>3. insts' = insts \/ Len(insts') = Len(insts) + 1
      BY <2>1, <3>2 DEF Decoding, DecodeStep, DecodeOne, DecodeFails, LoopEnds
    <3> QED BY <3>1, <3>2, <3>3
  <2>2. CASE ~Decoding
    <3>1. UNCHANGED <<mode, code, insts, total>>
      BY <1>1, <2>2
         DEF Next, RelocateUnsupported, BlockDecoded, BlockRefused, RelocateOne,
             RelocateRefused, RelocateClobbers, JumpBack, JumpBackFails, RelocateTurn,
             JumpBackTurn, decodeVars
    <3>2. Len(insts) \in Nat
      BY DEF DetourInv, RelocateInv, TypeOK, DecodeTypeOK
    <3> QED BY <3>1, <3>2 DEF DetourInv, PrefixInv
  <2> QED BY <2>1, <2>2
<1>7. ArgumentInv'
  <2>1. Len(insts) \in Nat /\ Len(insts') \in Nat
    <3>1. insts \in Seq(Decoded)
      BY DEF DetourInv, RelocateInv, TypeOK, DecodeTypeOK
    <3>2. insts' \in Seq(Decoded)
      BY <1>5 DEF RelocateInv, TypeOK, DecodeTypeOK
    <3> QED BY <3>1, <3>2
  <2>2. analyzed' \in 0..Len(insts')
    BY <1>1, <1>6, <2>1 DEF DetourInv, ArgumentInv, DetourTypeOK
  <2> QED BY <1>1, <1>4, <1>5, <2>2
          DEF DetourInv, ArgumentInv, DetourTypeOK, RelocateInv, Phases
<1>8. PatchSize' = PatchSize /\ BackBound' = BackBound
  BY <1>1, <1>4 DEF PatchSize, BackBound
<1>9. PlanningInv'
  <2>1. Feasible'
    BY <1>3, <1>4, <1>8 DEF Feasible
  <2> QED BY <1>1, <1>3, <2>1 DEF PlanningInv, Unplaced
<1>10. AnalysisInv'
  BY <1>1 DEF AnalysisInv
<1>11. RunFacts(n, f, g)'
  <2>1. CASE Decoding
    BY <1>1, <1>2, <2>1, RunDecoding
  <2>2. CASE BlockDecoded
    <3>1. /\ rpc = "decode" /\ rpc' = "relocate" /\ dstatus = "OK"
          /\ UNCHANGED <<insts, total, dstatus, offset, recs, hazards, status>>
      BY <2>2 DEF BlockDecoded, decodeVars
    <3>2. WellEstimated' = WellEstimated
      BY <3>1 DEF WellEstimated
    <3> QED BY <1>1, <1>2, <1>4, <3>1, <3>2 DEF RunFacts
  <2>3. CASE BlockRefused
    BY <1>2, <2>3 DEF BlockRefused, RunFacts
  <2>4. CASE RelocateUnsupported
    BY <1>3, <2>4 DEF RelocateUnsupported, Feasible
  <2>5. CASE RelocateOne
    BY <1>1, <1>2, <2>5, RunOne
  <2>6. CASE RelocateRefused \/ RelocateClobbers
    BY <1>1, <1>2, <2>6, RunStops
  <2>7. CASE JumpBack \/ JumpBackFails
    BY <1>1, <1>2, <2>7, RunJumpBack
  <2> QED BY <1>1, <2>1, <2>2, <2>3, <2>4, <2>5, <2>6, <2>7 DEF Next
<1>12. PlannedInv'
  <2>1. PlanFacts(n, f, g)'
    BY <1>1, <1>2, <1>4, PlanFactsKept
  <2>2. PatchFacts'
    BY <1>1 DEF PatchFacts
  <2>3. \E i, x, y : (PlanFacts(i, x, y) /\ RunFacts(i, x, y))'
    BY <1>11, <2>1
  <2> QED BY <2>2, <2>3 DEF PlannedInv
<1> QED BY <1>5, <1>6, <1>7, <1>9, <1>10, <1>12 DEF DetourInv

\* The relocation is over: what the caller does next leaves it as it is.
LEMMA AfterwardsInv ==
    ASSUME DetourInv, phase \in {"relocate", "pad"}, rpc = "done",
           phase' \in {"abandoned", "pad", "hooked"},
           UNCHANGED vars, UNCHANGED <<replacement, override, plan, emitMax, analyzed>>,
           entry' \in EmitResults, padding' \in EmitResults,
           phase' = "pad" => padding' = NoEmission,
           PatchFacts'
    PROVE  DetourInv'
<1>1. UNCHANGED <<mode, code, tail, need, room, insts, total, dstatus, raddr, cont, bmode,
                  allowed, cap, rpc, offset, recs, out, clob, hazards, result, status>>
  BY DEF vars, decodeVars, argVars, workVars
<1>2. RelocateInv' /\ PrefixInv'
  BY NothingMoves DEF DetourInv
<1>3. ArgumentInv'
  <2>1. analyzed' \in 0..Len(insts')
    BY <1>1 DEF DetourInv, ArgumentInv, DetourTypeOK
  <2> QED BY <1>1, <1>2, <2>1
          DEF DetourInv, ArgumentInv, DetourTypeOK, RelocateInv, Phases
<1>4. PatchSize' = PatchSize /\ BackBound' = BackBound
  BY <1>1 DEF PatchSize, BackBound
<1>5. PlanningInv'
  <2>1. Feasible'
    BY <1>1, <1>4 DEF DetourInv, PlanningInv, Feasible
  <2> QED BY <2>1 DEF PlanningInv, Unplaced
<1>6. AnalysisInv'
  BY DEF AnalysisInv
<1>7. PlannedInv'
  <2>1. PICK n, f, g : PlanFacts(n, f, g) /\ RunFacts(n, f, g)
    BY DEF DetourInv, PlannedInv, Planned
  <2>2. PlanFacts(n, f, g)'
    BY <1>1, <2>1, PlanFactsKept
  <2>3. RunFacts(n, f, g)'
    <3>1. WellEstimated' = WellEstimated /\ Return' = Return
      BY <1>1 DEF WellEstimated, Return
    <3> HIDE DEF Return
    <3> QED BY <1>1, <2>1, <3>1 DEF RunFacts
  <2>4. \E i, x, y : (PlanFacts(i, x, y) /\ RunFacts(i, x, y))'
    BY <2>2, <2>3
  <2> QED BY <2>4 DEF PlannedInv
<1> QED BY <1>2, <1>3, <1>5, <1>6, <1>7 DEF DetourInv

\* A relocation that failed is the end of the detour.
LEMMA AbandonInv ==
    ASSUME DetourInv, Abandon
    PROVE  DetourInv'
<1>1. /\ phase = "relocate" /\ rpc = "done" /\ status # "OK" /\ phase' = "abandoned"
      /\ UNCHANGED vars /\ UNCHANGED <<replacement, override, plan, emitMax, analyzed>>
      /\ UNCHANGED <<entry, padding>>
  BY DEF Abandon
<1>2. rpc' = rpc /\ status' = status
  BY <1>1 DEF vars, workVars
<1>3. entry' \in EmitResults /\ padding' \in EmitResults
  BY <1>1 DEF DetourInv, ArgumentInv, DetourTypeOK
<1>4. PatchFacts'
  BY <1>1, <1>2 DEF PatchFacts
<1> QED BY <1>1, <1>3, <1>4, AfterwardsInv

\* The jump to the replacement has the size that was planned for it.
LEMMA EmitEntryInv ==
    ASSUME DetourInv, EmitEntry
    PROVE  DetourInv'
<1> DEFINE e == EmitJump(mode, Origin, replacement, JumpOptions(bmode, plan.clobbers),
                         plan.overwrite)
<1>1. /\ phase = "relocate" /\ rpc = "done" /\ status = "OK" /\ entry' = e
      /\ phase' = IF entry'.status # "OK" THEN "abandoned"
                  ELSE IF entry'.size < plan.overwrite THEN "pad" ELSE "hooked"
      /\ UNCHANGED vars /\ UNCHANGED <<replacement, override, plan, emitMax, analyzed>>
      /\ padding' = padding
  BY DEF EmitEntry, JumpOptions
<1>2. PICK n, f, g : PlanFacts(n, f, g)
  BY <1>1 DEF DetourInv, PlannedInv, Planned
<1>3. /\ mode \in RealModes /\ bmode \in BranchModes /\ replacement \in Int /\ Origin \in Int
      /\ plan.overwrite \in Nat /\ plan.clobbers \in SUBSET Regs /\ padding = NoEmission
      /\ PatchSize.size # 0
  <2>1. mode \notin VmModes /\ PatchSize.size # 0 /\ padding = NoEmission
    BY <1>1 DEF DetourInv, PlanningInv, Feasible
  <2> QED BY <2>1, BlockAssumption
          DEF DetourInv, ArgumentInv, DetourTypeOK, RelocateInv, TypeOK, DecodeTypeOK, RealModes
<1>4. /\ plan.patch = PatchSize.size /\ plan.patch <= plan.overwrite
      /\ PatchSize.clobbers \subseteq plan.clobbers
  BY <1>2 DEF PlanFacts, PlanSays
<1>5. e.status = "OK" /\ e.size = plan.patch
  BY <1>3, <1>4, PatchIsEmitted DEF PatchSize
<1>6. e \in EmitResults
  <2>1. JumpOptions(bmode, plan.clobbers) \in EmitOptions
    BY <1>3 DEF JumpOptions, EmitOptions
  <2>2. Accountable(mode, e, plan.overwrite)
    BY <1>3, <2>1, EmitTransferContract DEF EmitJump, RealModes
  <2> QED BY <2>2 DEF Accountable
<1> HIDE DEF e
<1>7. plan.patch \in Nat
  BY <1>5, <1>6 DEF EmitResults
<1>8. /\ phase' = IF plan.patch < plan.overwrite THEN "pad" ELSE "hooked"
      /\ entry'.status = "OK" /\ entry'.size = plan.patch
  BY <1>1, <1>5
<1>9. PatchFacts'
  <2>1. rpc' = rpc /\ status' = status
    BY <1>1 DEF vars, workVars
  <2>2. padding'.size = 0
    BY <1>1, <1>3 DEF NoEmission, Refused
  <2>3. phase' = "hooked" => entry'.size + padding'.size = plan'.overwrite
    BY <1>1, <1>3, <1>4, <1>7, <1>8, <2>2
  <2>4. phase' \in {"pad", "hooked"} /\ (phase' = "pad" => plan'.patch < plan'.overwrite)
    BY <1>1, <1>8
  <2> QED BY <1>1, <1>8, <2>1, <2>3, <2>4 DEF PatchFacts
<1>10. padding' = NoEmission /\ padding' \in EmitResults /\ entry' \in EmitResults
  BY <1>1, <1>3, <1>6, NothingYet
<1>11. phase' \in {"abandoned", "pad", "hooked"}
  BY <1>8
<1> QED BY <1>1, <1>9, <1>10, <1>11, AfterwardsInv

\* Whole no-operations fill the rest.
LEMMA PadRestInv ==
    ASSUME DetourInv, PadRest
    PROVE  DetourInv'
<1> DEFINE rest == plan.overwrite - entry.size
<1>1. /\ phase = "pad" /\ padding' = EmitPadding(mode, rest, rest)
      /\ phase' = IF padding'.status = "OK" THEN "hooked" ELSE "abandoned"
      /\ UNCHANGED vars /\ UNCHANGED <<replacement, override, plan, emitMax, analyzed>>
      /\ entry' = entry
  BY DEF PadRest
<1>2. PICK n, f, g : PlanFacts(n, f, g) /\ RunFacts(n, f, g) /\ PatchFacts
  BY <1>1 DEF DetourInv, PlannedInv, Planned
<1>3. /\ rpc = "done" /\ status = "OK" /\ entry.status = "OK" /\ entry.size = plan.patch
      /\ plan.patch < plan.overwrite /\ plan.patch = PatchSize.size
  BY <1>1, <1>2 DEF PatchFacts, PlanFacts, PlanSays
<1>4. /\ mode \in RealModes /\ bmode \in BranchModes /\ replacement \in Int /\ Origin \in Int
      /\ plan.overwrite \in Nat /\ plan.patch \in Nat /\ entry \in EmitResults
      /\ PatchSize.size # 0
  <2>1. mode \notin VmModes /\ PatchSize.size # 0
    BY <1>1 DEF DetourInv, PlanningInv, Feasible
  <2> QED BY <2>1, BlockAssumption
          DEF DetourInv, ArgumentInv, DetourTypeOK, RelocateInv, TypeOK, DecodeTypeOK, RealModes
<1>5. rest \in Nat /\ rest # 0 /\ rest % PaddingUnit(mode) = 0
  <2>1. plan.overwrite % PaddingUnit(mode) = 0
    BY <1>2 DEF PlanFacts
  <2>2. plan.patch % PaddingUnit(mode) = 0
    BY <1>3, <1>4, PatchCosts DEF PatchSize
  <2>3. (plan.overwrite - plan.patch) % PaddingUnit(mode) = 0
    <3>1. plan.overwrite \in Int /\ plan.patch \in Int
      BY <1>4
    <3> QED BY <2>1, <2>2, <3>1, UnitSum
  <2>4. plan.overwrite - plan.patch \in Nat /\ plan.overwrite - plan.patch # 0
    BY <1>3, <1>4
  <2> QED BY <1>3, <2>3, <2>4
<1>6. rest = plan.overwrite - plan.patch
  BY <1>3
<1> HIDE DEF rest
<1>7. padding' = Refused("OK", rest)
  BY <1>1, <1>4, <1>5 DEF EmitPadding, RealModes
<1>8. padding'.status = "OK" /\ padding'.size = rest /\ padding' \in EmitResults
  BY <1>5, <1>7 DEF Refused, EmitResults, Statuses
<1>9. phase' = "hooked"
  BY <1>1, <1>8
<1>10. PatchFacts'
  <2>1. rpc' = rpc /\ status' = status
    BY <1>1 DEF vars, workVars
  <2>2. entry'.size + padding'.size = plan'.overwrite
    BY <1>1, <1>3, <1>4, <1>6, <1>8
  <2> QED BY <1>1, <1>3, <1>9, <2>1, <2>2 DEF PatchFacts
<1>11. entry' \in EmitResults
  BY <1>1, <1>4
<1> QED BY <1>1, <1>3, <1>8, <1>9, <1>10, <1>11, AfterwardsInv

\* Every step of a detour keeps the invariant.
LEMMA DetourStepInv ==
    ASSUME DetourInv, [DetourNext]_sessionVars
    PROVE  DetourInv'
<1>1. CASE PlanRefused \/ PlanSized
  BY <1>1, SizeInv
<1>2. CASE PlanDecoding \/ PlanUndecodable
  BY <1>2, PlanDecodingInv
<1>3. CASE PlanBlock
  BY <1>3, PlanBlockInv
<1>4. CASE AnalyzeNext
  BY <1>4, AnalyzeNextInv
<1>5. CASE PlanDone
  BY <1>5, PlanDoneInv
<1>6. CASE PlaceTrampoline
  BY <1>6, PlaceTrampolineInv
<1>7. CASE FillTrampoline
  BY <1>7, FillTrampolineInv
<1>8. CASE Abandon
  BY <1>8, AbandonInv
<1>9. CASE EmitEntry
  BY <1>9, EmitEntryInv
<1>10. CASE PadRest
  BY <1>10, PadRestInv
<1>11. CASE UNCHANGED sessionVars
  <2>1. UNCHANGED vars /\ UNCHANGED detourVars
    BY <1>11 DEF sessionVars
  <2>2. /\ UNCHANGED <<mode, code, tail, need, room, insts, total, dstatus, raddr, cont, bmode,
                       allowed, cap, rpc, offset, recs, out, clob, hazards, result, status>>
        /\ UNCHANGED <<phase, replacement, override, plan, emitMax, analyzed, entry, padding>>
    BY <2>1 DEF vars, decodeVars, argVars, workVars, detourVars
  <2>3. RelocateInv' /\ PrefixInv'
    BY <2>1, NothingMoves DEF DetourInv
  <2>4. ArgumentInv'
    BY <2>2, <2>3 DEF DetourInv, ArgumentInv, DetourTypeOK, RelocateInv
  <2>5. PatchSize' = PatchSize /\ BackBound' = BackBound /\ Return' = Return
        /\ WellEstimated' = WellEstimated
    BY <2>2 DEF PatchSize, BackBound, Return, WellEstimated
  <2> HIDE DEF Return
  <2>6. PlanningInv'
    BY <2>2, <2>5 DEF DetourInv, PlanningInv, Feasible, WorkInit, DecodeInit
  <2>7. AnalysisInv'
    BY <2>2, <2>5 DEF DetourInv, AnalysisInv, PlanSays
  <2>8. PlannedInv'
    <3>1. CASE ~Planned
      BY <2>2, <3>1 DEF PlannedInv, Planned
    <3>2. CASE Planned
      <4>1. PICK n, f, g : /\ PlanFacts(n, f, g)
                           /\ phase # "planned" => RunFacts(n, f, g) /\ PatchFacts
        BY <3>2 DEF DetourInv, PlannedInv
      <4>2. PlanFacts(n, f, g)'
        <5>1. UNCHANGED <<mode, code, bmode, replacement, plan>>
          BY <2>2
        <5>2. PlanFacts(n, f, g)
          BY <4>1
        <5> QED BY <5>1, <5>2, PlanFactsKept
      <4>3. ASSUME phase # "planned"
            PROVE  RunFacts(n, f, g)' /\ PatchFacts'
        <5>1. RunFacts(n, f, g) /\ PatchFacts
          BY <4>1, <4>3
        <5>2. RunFacts(n, f, g)'
          BY <2>2, <2>5, <5>1 DEF RunFacts
        <5>3. PatchFacts'
          BY <2>2, <5>1 DEF PatchFacts
        <5> QED BY <5>2, <5>3
      <4>4. (phase # "planned")' => phase # "planned"
        BY <2>2
      <4>5. \E i, x, y : ( /\ PlanFacts(i, x, y)
                           /\ phase # "planned" => RunFacts(i, x, y) /\ PatchFacts )'
        BY <4>2, <4>3, <4>4
      <4> QED BY <4>5 DEF PlannedInv
    <3> QED BY <3>1, <3>2
  <2> QED BY <2>3, <2>4, <2>6, <2>7, <2>8 DEF DetourInv
<1> QED BY <1>1, <1>2, <1>3, <1>4, <1>5, <1>6, <1>7, <1>8, <1>9, <1>10, <1>11 DEF DetourNext

-----------------------------------------------------------------------------
(***************************************************************************)
(* The theorems.                                                           *)
(***************************************************************************)

\* A detour stays in the inductive invariant: what the plan says of the code
\* is what the relocation of the same code meets.
THEOREM DetourInvariant == DetourSpec => []DetourInv
<1>1. DetourInit => DetourInv
  BY DetourInitInv
<1>2. DetourInv /\ [DetourNext]_sessionVars => DetourInv'
  BY DetourStepInv
<1> QED BY <1>1, <1>2, PTL DEF DetourSpec

\* The variables of a detour keep their types.
THEOREM DetourTypeCorrect == DetourSpec => []DetourTypeOK
<1>1. DetourInv => DetourTypeOK
  BY DetourInvImplies
<1> QED BY <1>1, DetourInvariant, PTL

\* A trampoline of the size asmkit_plan_detour names is never too small,
\* wherever it is placed, for code whose instructions the analysis counts well.
THEOREM PlannedSizeAlwaysSuffices == DetourSpec => []PlannedSizeSuffices
<1>1. DetourInv => PlannedSizeSuffices
  BY DetourInvImplies
<1> QED BY <1>1, DetourInvariant, PTL

\* asmkit_relocate_prologue overwrites the block asmkit_plan_detour planned,
\* reports the hazards it reported and destroys only the registers it named.
THEOREM PlanAlwaysHonoured == DetourSpec => []PlanHonoured
<1>1. DetourInv => PlanHonoured
  BY DetourInvImplies
<1> QED BY <1>1, DetourInvariant, PTL

\* Once the trampoline is filled the patch cannot fail, and it covers the
\* block to the byte.
THEOREM PatchAlwaysCovers == DetourSpec => []PatchCovers
<1>1. DetourInv => PatchCovers
  BY DetourInvImplies
<1> QED BY <1>1, DetourInvariant, PTL

\* The distances a plan names for a near trampoline are enough for its jump
\* back.
THEOREM NearAlwaysEnough == DetourSpec => []NearEnough
<1>1. DetourInv => NearEnough
  BY DetourInvImplies
<1> QED BY <1>1, DetourInvariant, PTL
=============================================================================
