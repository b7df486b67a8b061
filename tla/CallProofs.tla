----------------------------- MODULE CallProofs -----------------------------
(***************************************************************************)
(* Theorems about the two components whose calls stand on their own: the   *)
(* control transfers and the engines.                                      *)
(***************************************************************************)
EXTENDS Transfer, EngineConfig, EmitterContracts

-----------------------------------------------------------------------------
(***************************************************************************)
(* Theorems about a planned transfer, for every site, destination, buffer, *)
(* mode and set of options.  A plan is made with a scratch buffer and kept *)
(* with another one, so the proofs rest on how far the result of a call    *)
(* depends on the capacity: only through whether the size it reports fits. *)
(***************************************************************************)

\* Two results of one call, with capacities c1 and c2: the same sequence was
\* chosen, or the same refusal.
Alike(r1, c1, r2, c2) ==
    /\ r1.size = r2.size /\ r1.clobbers = r2.clobbers
    /\ r1.status \in Settled <=> r2.status \in Settled
    /\ r1.status \notin Settled => r1.status = r2.status
    /\ r1.status \in Settled => (r1.status = "OK" <=> r1.size <= c1)
    /\ r2.status \in Settled => (r2.status = "OK" <=> r2.size <= c2)

\* The emission of a sequence is alike in all buffers.
LEMMA WrittenAlike ==
    ASSUME NEW size \in Nat, NEW clobbers, NEW code, NEW c1 \in Nat, NEW c2 \in Nat
    PROVE  /\ Alike(Written(size, clobbers, code, c1), c1, Written(size, clobbers, code, c2), c2)
           /\ Written(size, clobbers, code, c1).status \in Settled
           /\ Written(size, clobbers, code, c1).size = size
<1>1. ASSUME NEW c \in Nat
      PROVE  /\ Written(size, clobbers, code, c).size = size
             /\ Written(size, clobbers, code, c).clobbers = clobbers
             /\ Written(size, clobbers, code, c).status =
                  (IF c < size THEN "OUTPUT_TOO_SMALL" ELSE "OK")
  BY DEF Written
<1> QED BY <1>1 DEF Alike, Settled

\* So is a refusal, which does not look at the buffer.
LEMMA RefusedAlike ==
    ASSUME NEW status, status \notin Settled, NEW size, NEW c1, NEW c2
    PROVE  /\ Alike(Refused(status, size), c1, Refused(status, size), c2)
           /\ Refused(status, size).status = status
  BY DEF Alike, Refused

\* The choice between two sequences does not look at the buffer either.
LEMMA EmitAnyAlike ==
    ASSUME NEW bmode, NEW c1, NEW c2, NEW d1, NEW d2, NEW o1, NEW o2,
           Alike(d1, c1, d2, c2), Alike(o1, c1, o2, c2)
    PROVE  Alike(EmitAny(d1, bmode, o1), c1, EmitAny(d2, bmode, o2), c2)
  BY DEF EmitAny, Alike

\* An emission that was settled is at most 16 bytes long: the scratch buffer
\* of the plan, twice as large, holds it.
Short(r) == r.status \in Settled => r.size <= 16

\* Whichever sequence is chosen, a short one is.
LEMMA EmitAnyShort ==
    ASSUME NEW bmode, NEW d, NEW o, Short(d), Short(o)
    PROVE  Short(EmitAny(d, bmode, o))
  BY DEF EmitAny

\* What a target's emitter has to satisfy.
Steady(r1, c1, r2, c2) == Alike(r1, c1, r2, c2) /\ Short(r1)

\* A sequence of at most 16 bytes is emitted alike, and fits the scratch buffer of
\* a plan.
LEMMA WrittenSteady ==
    ASSUME NEW size \in Nat, size <= 16, NEW clobbers, NEW code, NEW c1 \in Nat, NEW c2 \in Nat
    PROVE  Steady(Written(size, clobbers, code, c1), c1, Written(size, clobbers, code, c2), c2)
  BY WrittenAlike DEF Steady, Short

\* So is a refusal that has nothing to do with the capacity.
LEMMA RefusedSteady ==
    ASSUME NEW status, status \notin Settled, NEW size, NEW c1, NEW c2
    PROVE  Steady(Refused(status, size), c1, Refused(status, size), c2)
  BY RefusedAlike DEF Steady, Short

\* The choice between two sequences is the same in all buffers.
LEMMA EmitAnySteady ==
    ASSUME NEW bmode, NEW c1, NEW c2, NEW d1, NEW d2, NEW o1, NEW o2,
           Steady(d1, c1, d2, c2), Steady(o1, c1, o2, c2)
    PROVE  Steady(EmitAny(d1, bmode, o1), c1, EmitAny(d2, bmode, o2), c2)
  BY EmitAnyAlike, EmitAnyShort DEF Steady

\* The emitters of x86 are steady,
LEMMA X86Steady ==
    ASSUME NEW m \in X86Modes, NEW k, NEW a, NEW b, NEW bmode,
           NEW c1 \in Nat, NEW c2 \in Nat
    PROVE  Steady(X86Emit(m, k, a, b, bmode, c1), c1,
                  X86Emit(m, k, a, b, bmode, c2), c2)
<1>1. X86DirectSize(m) \in Nat /\ X86DirectSize(m) <= 16
  BY DEF X86DirectSize
<1>2. Steady(Refused("BRANCH_OUT_OF_RANGE", 0), c1, Refused("BRANCH_OUT_OF_RANGE", 0), c2)
  BY RefusedSteady DEF Settled
<1>3. Steady(X86EmitRel(m, k, a, b, c1), c1, X86EmitRel(m, k, a, b, c2), c2)
  BY <1>1, <1>2, WrittenSteady DEF X86EmitRel
<1>4. Steady(X86EmitAbs(k, b, c1), c1, X86EmitAbs(k, b, c2), c2)
  BY WrittenSteady DEF X86EmitAbs
<1> QED BY <1>2, <1>3, <1>4, EmitAnySteady DEF X86Emit

\* those of ARM,
LEMMA ArmSteady ==
    ASSUME NEW m, NEW k, NEW a, NEW b, NEW bmode, NEW c1 \in Nat, NEW c2 \in Nat
    PROVE  Steady(ArmEmit(m, k, a, b, bmode, c1), c1,
                  ArmEmit(m, k, a, b, bmode, c2), c2)
<1>1. \A n \in {0, 2, 4} : Steady(Refused("BRANCH_OUT_OF_RANGE", n), c1,
                                  Refused("BRANCH_OUT_OF_RANGE", n), c2)
  BY RefusedSteady DEF Settled
<1>2. Steady(ArmEmitRel(m, k, a, b, c1), c1, ArmEmitRel(m, k, a, b, c2), c2)
  <2>1. CASE m = "a32"
    BY <1>1, <2>1, WrittenSteady DEF ArmEmitRel
  <2>2. CASE m # "a32"
    BY <1>1, <2>2, WrittenSteady DEF ArmEmitRel
  <2> QED BY <2>1, <2>2
<1>3. Steady(ArmEmitAbsA32(k, b, c1), c1, ArmEmitAbsA32(k, b, c2), c2)
  BY WrittenSteady DEF ArmEmitAbsA32
<1> QED BY <1>1, <1>2, <1>3, EmitAnySteady DEF ArmEmit

\* those of AArch64.
LEMMA A64Steady ==
    ASSUME NEW k, NEW a, NEW b, NEW bmode, NEW given, NEW allowed,
           NEW c1 \in Nat, NEW c2 \in Nat
    PROVE  Steady(A64Emit(k, a, b, bmode, given, allowed, c1), c1,
                  A64Emit(k, a, b, bmode, given, allowed, c2), c2)
<1>1. \A st \in {"BRANCH_OUT_OF_RANGE", "FORBIDDEN_CLOBBER"} :
         Steady(Refused(st, 4), c1, Refused(st, 4), c2)
  BY RefusedSteady DEF Settled
<1>2. Steady(A64EmitRel(k, a, b, c1), c1, A64EmitRel(k, a, b, c2), c2)
  BY <1>1, WrittenSteady DEF A64EmitRel
<1>3. Steady(A64EmitAbs(k, b, c1), c1, A64EmitAbs(k, b, c2), c2)
  BY WrittenSteady DEF A64EmitAbs
<1> QED BY <1>1, <1>2, <1>3, EmitAnySteady DEF A64Emit

\* Whatever the target and the options, a call of a public emitter differs
\* from the same call with another buffer only by whether its size fits; what
\* is refused for its clobbers is not refused for its size.
LEMMA EmitTransferSteady ==
    ASSUME NEW m \in Modes, NEW k, NEW a, NEW b, NEW o,
           NEW c1 \in Nat, NEW c2 \in Nat
    PROVE  LET r1 == EmitTransfer(m, k, a, b, o, c1)
               r2 == EmitTransfer(m, k, a, b, o, c2)
           IN  /\ r1.size = r2.size /\ r1.clobbers = r2.clobbers
               /\ r1.status \notin {"OK", "OUTPUT_TOO_SMALL", "FORBIDDEN_CLOBBER"}
                    => r1.status = r2.status
               /\ r1.status = "OUTPUT_TOO_SMALL" => ~(r1.size <= c1) /\ r1.size <= 16
               /\ r1.status = "OUTPUT_TOO_SMALL" /\ r2.size <= c2
                    => r2.status \in {"OK", "FORBIDDEN_CLOBBER"}
               /\ r1.status = "OK" => r1.size <= c1 /\ r1.size <= 16
               /\ r1.status = "OK" /\ r2.size <= c2 => r2.status = "OK"
<1> DEFINE t1 == TargetEmit(m, k, a, b, o, c1)
           t2 == TargetEmit(m, k, a, b, o, c2)
           r1 == EmitTransfer(m, k, a, b, o, c1)
           r2 == EmitTransfer(m, k, a, b, o, c2)
<1>1. Steady(t1, c1, t2, c2)
  <2>1. CASE m \in X86Modes
    BY <2>1, X86Steady DEF TargetEmit
  <2>2. CASE m = "a64"
    BY <2>2, A64Steady DEF TargetEmit, X86Modes
  <2>3. CASE m \in ArmModes
    BY <2>3, ArmSteady DEF TargetEmit, X86Modes, ArmModes, VmModes
  <2>4. CASE m \in VmModes
    <3>1. Steady(Refused("UNSUPPORTED_TARGET_OPERATION", 0), c1,
                 Refused("UNSUPPORTED_TARGET_OPERATION", 0), c2)
      BY RefusedSteady DEF Settled
    <3> QED BY <2>4, <3>1 DEF TargetEmit, X86Modes, VmModes, VmEmit, BpfEmit, WasmEmit
  <2> QED BY <2>1, <2>2, <2>3, <2>4 DEF Modes, ArmModes
<1>2. r1 = EmitFinish(o, t1) /\ r2 = EmitFinish(o, t2)
  BY DEF EmitTransfer
<1> HIDE DEF t1, t2, r1, r2
<1>3. /\ r1.size = t1.size /\ r1.clobbers = t1.clobbers
      /\ r2.size = t2.size /\ r2.clobbers = t2.clobbers
  BY <1>2 DEF EmitFinish
<1>4. /\ r1.status = IF t1.status = "OK" /\ ~ClobbersAllowed(o, t1.clobbers)
                     THEN "FORBIDDEN_CLOBBER" ELSE t1.status
      /\ r2.status = IF t2.status = "OK" /\ ~ClobbersAllowed(o, t2.clobbers)
                     THEN "FORBIDDEN_CLOBBER" ELSE t2.status
  BY <1>2 DEF EmitFinish
<1>5. /\ r1.size = r2.size /\ r1.clobbers = r2.clobbers
      /\ r1.status \notin {"OK", "OUTPUT_TOO_SMALL", "FORBIDDEN_CLOBBER"}
           => r1.status = r2.status
      /\ r1.status = "OUTPUT_TOO_SMALL" => ~(r1.size <= c1) /\ r1.size <= 16
      /\ r1.status = "OUTPUT_TOO_SMALL" /\ r2.size <= c2
           => r2.status \in {"OK", "FORBIDDEN_CLOBBER"}
      /\ r1.status = "OK" => r1.size <= c1 /\ r1.size <= 16
      /\ r1.status = "OK" /\ r2.size <= c2 => r2.status = "OK"
  BY <1>1, <1>3, <1>4 DEF Steady, Alike, Short, Settled
<1> QED BY <1>5 DEF r1, r2

-----------------------------------------------------------------------------
(***************************************************************************)
(* Plans.                                                                  *)
(***************************************************************************)

\* A target's bound is well typed.
LEMMA PlanJumpBackType ==
    ASSUME NEW m \in Modes, NEW bmode
    PROVE  PlanJumpBack(m, bmode) \in Bounds
<1>1. /\ -I32Max - 1 \in Int /\ I32Max \in Int
      /\ {} \in SUBSET Regs /\ {"x16"} \in SUBSET Regs
      /\ {"OK", "BRANCH_OUT_OF_RANGE", "UNSUPPORTED_TARGET_OPERATION"} \subseteq Statuses
  BY I32Assumption DEF Regs, Statuses
<1>3. CASE m \in X86Modes
  <2>1. PlanJumpBack(m, bmode) = X86PlanJumpBack(m, bmode)
    BY <1>3 DEF PlanJumpBack
  <2> QED BY <1>1, <2>1, SMT DEF Bound, Bounds, X86PlanJumpBack
<1>4. CASE m = "a64"
  <2>1. PlanJumpBack(m, bmode) = A64PlanJumpBack(bmode)
    BY <1>4 DEF PlanJumpBack, X86Modes
  <2> QED BY <1>1, <2>1, SMT DEF Bound, Bounds, A64PlanJumpBack
<1>5. CASE m \in VmModes
  <2>1. PlanJumpBack(m, bmode) = VmPlanJumpBack(m)
    BY <1>5 DEF PlanJumpBack, X86Modes, VmModes
  <2> QED BY <1>1, <2>1 DEF Bound, Bounds, VmPlanJumpBack, BpfPlanJumpBack, WasmPlanJumpBack
<1>6. CASE m \in ArmModes
  <2>1. PlanJumpBack(m, bmode) = ArmPlanJumpBack(m, bmode)
    BY <1>6 DEF PlanJumpBack, X86Modes, VmModes, ArmModes
  <2> QED BY <1>1, <2>1, SMT DEF Bound, Bounds, ArmPlanJumpBack
<1> QED BY <1>3, <1>4, <1>5, <1>6 DEF Modes, ArmModes

\* What a plan p says of the emission e tried in the scratch buffer and of the
\* target's bound b: it is a promise exactly when e succeeded.
PlanMatches(p, e, b) ==
    /\ p \in TransferPlans
    /\ e.status = "OK" => /\ p.status = "OK" /\ ~p.island
                          /\ p.size = e.size /\ p.clobbers = e.clobbers
    /\ p.status = "OK" /\ ~p.island => e.status = "OK"
    /\ p.status = "OK" /\ p.island =>
          /\ b.status = "OK" /\ p.size = b.size /\ p.min = b.min /\ p.max = b.max
          /\ e.status \in {"BRANCH_OUT_OF_RANGE", "FORBIDDEN_CLOBBER"}

\* What a plan says of its size and clobbers, from what the emission into the scratch
\* buffer says and from the bound for a jump back.
LEMMA PlanFacts ==
    ASSUME NEW m \in Modes, NEW c \in BOOLEAN, NEW f \in Int, NEW t \in Int,
           NEW o \in EmitOptions
    PROVE  PlanMatches(PlanControlTransfer(m, c, f, t, o),
                       EmitTransfer(m, c, f, t, o, PlanScratch), PlanJumpBack(m, ModeOf(o)))
<1> DEFINE p == PlanControlTransfer(m, c, f, t, o)
           e == EmitTransfer(m, c, f, t, o, PlanScratch)
           b == PlanJumpBack(m, ModeOf(o))
<1>1. e \in EmitResults
  BY EmitTransferContract DEF Accountable, PlanScratch
<1>2. b \in Bounds
  BY PlanJumpBackType
<1>4. p = IF e.status = "OK"
          THEN TransferPlan("OK", e.size, e.clobbers, FALSE, 0, 0)
          ELSE IF e.status \notin {"BRANCH_OUT_OF_RANGE", "FORBIDDEN_CLOBBER"}
          THEN TransferPlan(e.status, 0, {}, FALSE, 0, 0)
          ELSE IF b.status # "OK"
          THEN TransferPlan(b.status, 0, {}, FALSE, 0, 0)
          ELSE TransferPlan("OK", b.size, b.clobbers, TRUE, b.min, b.max)
  BY DEF PlanControlTransfer
<1>5. /\ e.status \in Statuses /\ e.size \in Nat /\ e.clobbers \in SUBSET Regs
      /\ b.status \in Statuses /\ b.size \in Nat /\ b.clobbers \in SUBSET Regs
      /\ b.min \in Int /\ b.max \in Int
      /\ "OK" \in Statuses /\ {} \in SUBSET Regs
  BY <1>1, <1>2 DEF EmitResults, Bounds, Statuses
<1> SUFFICES PlanMatches(p, e, b)
  OBVIOUS
<1> HIDE DEF p, e, b
<1>6. CASE e.status = "OK"
  <2>1. p = TransferPlan("OK", e.size, e.clobbers, FALSE, 0, 0)
    BY <1>4, <1>6
  <2> QED BY <1>5, <1>6, <2>1 DEF TransferPlan, TransferPlans, PlanMatches
<1>7. CASE e.status \notin {"OK", "BRANCH_OUT_OF_RANGE", "FORBIDDEN_CLOBBER"}
  <2>1. p = TransferPlan(e.status, 0, {}, FALSE, 0, 0)
    BY <1>4, <1>7
  <2> QED BY <1>5, <1>7, <2>1 DEF TransferPlan, TransferPlans, PlanMatches
<1>8. CASE e.status \in {"BRANCH_OUT_OF_RANGE", "FORBIDDEN_CLOBBER"} /\ b.status # "OK"
  <2>1. p = TransferPlan(b.status, 0, {}, FALSE, 0, 0)
    BY <1>4, <1>8
  <2> QED BY <1>5, <1>8, <2>1 DEF TransferPlan, TransferPlans, PlanMatches
<1>9. CASE e.status \in {"BRANCH_OUT_OF_RANGE", "FORBIDDEN_CLOBBER"} /\ b.status = "OK"
  <2>1. p = TransferPlan("OK", b.size, b.clobbers, TRUE, b.min, b.max)
    BY <1>4, <1>9
  <2> QED BY <1>5, <1>9, <2>1 DEF TransferPlan, TransferPlans, PlanMatches
<1> QED BY <1>6, <1>7, <1>8, <1>9

\* A sequence for which there is room is written.
LEMMA WrittenFits ==
    ASSUME NEW size \in Nat, NEW clobbers, NEW code, NEW cap \in Nat, size <= cap
    PROVE  /\ Written(size, clobbers, code, cap).status = "OK"
           /\ Written(size, clobbers, code, cap).clobbers = clobbers
  BY DEF Written

\* Every target reaches directly, with a jump, what lies within its bound: the
\* distances are those of the displacement, which counts from `Ahead' of the
\* site, and the bounds of the two agree.
LEMMA JumpToIsland ==
    ASSUME mode \in Modes, from \in Int, NEW bmode, NEW island \in Int, NEW o,
           o.given, o.mode = "DIRECT_ONLY",
           PlanJumpBack(mode, bmode).status = "OK",
           PlanJumpBack(mode, bmode).min + Ahead <= island - from,
           island - from <= PlanJumpBack(mode, bmode).max,
           (island - from) % PaddingUnit(mode) = 0
    PROVE  EmitTransfer(mode, FALSE, from, island, o, PlanJumpBack(mode, bmode).size).status = "OK"
<1> DEFINE b == PlanJumpBack(mode, bmode)
           d == island - from
           r == TargetEmit(mode, FALSE, from, island, o, b.size)
<1>1. d \in Int /\ island - (from + 8) = d - 8 /\ island - (from + 4) = d - 4
      /\ \A n \in Int : island - (from + n) = d - n
  OBVIOUS
<1>2. \A direct, otherwise : EmitAny(direct, "DIRECT_ONLY", otherwise) = direct
  BY DEF EmitAny
<1>3. b.size \in Nat
  BY PlanJumpBackType DEF Bounds
<1>4. r.status = "OK" /\ r.clobbers = {}
  <2>1. CASE mode \in X86Modes
    <3>1. r = X86EmitRel(mode, FALSE, from, island, b.size)
      BY <1>2, <2>1 DEF TargetEmit, X86Emit, ModeOf
    <3>2. b = X86PlanJumpBack(mode, bmode) /\ Ahead = X86DirectSize(mode)
      BY <2>1 DEF PlanJumpBack, Ahead, X86Modes
    <3>3. X86Fits(mode, d - X86DirectSize(mode)) /\ X86DirectSize(mode) <= b.size
      <4>1. mode \in {"x86_16", "x86_32", "x86_64"} /\ I32Max \in Nat
        BY <2>1, I32Assumption DEF X86Modes
      <4> QED BY <1>1, <3>2, <4>1, SMT DEF X86PlanJumpBack, X86DirectSize, Bound, X86Fits,
                                          FitsI16, FitsI32
    <3>4. X86DirectSize(mode) \in Nat
      BY DEF X86DirectSize
    <3> DEFINE n    == X86DirectSize(mode)
               code == {Item("jump", 0, n, d - n, NoInst)}
    <3>5. r = Written(n, {}, code, b.size)
      <4>1. island - (from + n) = d - n
        <5> HIDE DEF n
        <5> QED BY <3>4 DEF n
      <4> QED BY <3>1, <3>3, <4>1 DEF X86EmitRel
    <3> HIDE DEF r, b, d, code
    <3> QED BY <1>3, <3>3, <3>4, <3>5, WrittenFits
  <2>2. CASE mode = "a64"
    <3>1. r = A64EmitRel(FALSE, from, island, b.size)
      BY <1>2, <2>2 DEF TargetEmit, A64Emit, ModeOf, X86Modes
    <3>2. b = A64PlanJumpBack(bmode) /\ Ahead = 0 /\ d % 4 = 0
      BY <2>2 DEF PlanJumpBack, Ahead, X86Modes, PaddingUnit
    <3>3. FitsWords26(d) /\ 4 <= b.size
      BY <1>1, <3>2, SMT DEF A64PlanJumpBack, Bound, FitsWords26
    <3> DEFINE code == {Item("jump", 0, 4, d, NoInst)}
    <3>4. r = Written(4, {}, code, b.size)
      BY <3>1, <3>3 DEF A64EmitRel
    <3> HIDE DEF r, b, d, code
    <3> QED BY <1>3, <3>3, <3>4, WrittenFits
  <2>3. CASE mode = "a32"
    <3>1. r = ArmEmitRel(mode, FALSE, from, island, b.size)
      BY <1>2, <2>3 DEF TargetEmit, ArmEmit, ModeOf, X86Modes, VmModes
    <3>2. b = ArmPlanJumpBack(mode, bmode) /\ Ahead = 8 /\ d % 4 = 0
      BY <2>3 DEF PlanJumpBack, Ahead, X86Modes, VmModes, PaddingUnit
    <3>3. FitsWords24(d - 8) /\ 4 <= b.size
      BY <1>1, <2>3, <3>2, SMT DEF ArmPlanJumpBack, Bound, FitsWords24
    <3> DEFINE code == {Item("jump", 0, 4, d - 8, NoInst)}
    <3>4. r = Written(4, {}, code, b.size)
      BY <1>1, <2>3, <3>1, <3>3 DEF ArmEmitRel
    <3> HIDE DEF r, b, d, code
    <3> QED BY <1>3, <3>3, <3>4, WrittenFits
  <2>4. CASE mode = "thumb"
    <3>1. r = ArmEmitRel(mode, FALSE, from, island, b.size)
      BY <1>2, <2>4 DEF TargetEmit, ArmEmit, ModeOf, X86Modes, VmModes
    <3>2. b = ArmPlanJumpBack(mode, bmode) /\ Ahead = 4 /\ d % 2 = 0
      BY <2>4 DEF PlanJumpBack, Ahead, X86Modes, VmModes, PaddingUnit
    <3>3. FitsThumb(d - 4) /\ 2 <= b.size
      BY <1>1, <2>4, <3>2, SMT DEF ArmPlanJumpBack, Bound, FitsThumb
    <3> DEFINE code == {Item("jump", 0, 2, d - 4, NoInst)}
    <3>4. r = Written(2, {}, code, b.size)
      BY <1>1, <2>4, <3>1, <3>3 DEF ArmEmitRel
    <3> HIDE DEF r, b, d, code
    <3>5. 2 <= b.size
      BY <3>3
    <3>6. 2 \in Nat
      OBVIOUS
    <3>7. /\ Written(2, {}, code, b.size).status = "OK"
          /\ Written(2, {}, code, b.size).clobbers = {}
      BY <1>3, <3>5, <3>6, WrittenFits
    <3> QED BY <3>4, <3>7
  <2>5. CASE mode \in VmModes
    BY <2>5 DEF PlanJumpBack, X86Modes, VmModes, VmPlanJumpBack, BpfPlanJumpBack,
                WasmPlanJumpBack, Bound
  <2> QED BY <2>1, <2>2, <2>3, <2>4, <2>5 DEF Modes
<1> HIDE DEF r
<1>5. EmitFinish(o, r).status = "OK"
  BY <1>4 DEF EmitFinish, ClobbersAllowed
<1> QED BY <1>5 DEF r, EmitTransfer

-----------------------------------------------------------------------------
(***************************************************************************)
(* The inductive invariant: what the plan and the last emission were       *)
(* computed from.                                                          *)
(***************************************************************************)

Emitted(cap) == EmitTransfer(mode, isCall, from, to, opts, cap)

TransferInv ==
    /\ TransferTypeOK
    /\ tries = IF step \in {"start", "planned"} THEN 0 ELSE IF step = "retried" THEN 2 ELSE 1
    /\ step # "start" =>
          PlanMatches(tplan, Emitted(PlanScratch), PlanJumpBack(mode, ModeOf(opts)))
    /\ step = "emitted" =>
          tplan.status = "OK" /\ ~tplan.island /\ emission = Emitted(tplan.size)
    /\ step = "guessed" => \E cap \in Nat : emission = Emitted(cap)
    /\ step = "retried" =>
          \E cap \in Nat : /\ Emitted(cap).status = "OUTPUT_TOO_SMALL"
                           /\ emission = Emitted(Emitted(cap).size)
    /\ step = "island" /\ ~isCall => emission.status = "OK"

\* The properties follow from it.
LEMMA TransferInvImplies ==
    ASSUME TransferInv
    PROVE  PlanIsKept /\ RetrySettles /\ PlanPredicts /\ IslandReachable
<1> DEFINE e == Emitted(PlanScratch)
<1>1. /\ mode \in Modes /\ PlanScratch \in Nat /\ PlanScratch = 32
      /\ isCall \in BOOLEAN /\ from \in Int /\ to \in Int /\ opts \in EmitOptions
      /\ tplan \in TransferPlans
  BY DEF TransferInv, TransferTypeOK, PlanScratch
<1>2. \A c \in Nat : Emitted(c) \in EmitResults
  BY <1>1, EmitTransferContract DEF Emitted, Accountable
<1>3. ASSUME NEW c1 \in Nat, NEW c2 \in Nat
      PROVE  /\ Emitted(c1).size = Emitted(c2).size
             /\ Emitted(c1).clobbers = Emitted(c2).clobbers
             /\ Emitted(c1).status = "OUTPUT_TOO_SMALL" => Emitted(c1).size <= 16
             /\ Emitted(c1).status = "OUTPUT_TOO_SMALL" /\ Emitted(c2).size <= c2
                  => Emitted(c2).status \in {"OK", "FORBIDDEN_CLOBBER"}
             /\ Emitted(c1).status = "OK" => Emitted(c1).size <= c1 /\ Emitted(c1).size <= 16
             /\ Emitted(c1).status = "OK" /\ Emitted(c2).size <= c2 => Emitted(c2).status = "OK"
  BY <1>1, EmitTransferSteady DEF Emitted
<1>4. ASSUME step # "start"
      PROVE  PlanMatches(tplan, e, PlanJumpBack(mode, ModeOf(opts)))
  BY <1>4 DEF TransferInv
<1>5. PlanIsKept
  <2> SUFFICES ASSUME step = "emitted"
               PROVE  /\ emission.status = "OK" /\ emission.size = tplan.size
                      /\ emission.clobbers = tplan.clobbers
    BY DEF PlanIsKept
  <2>1. tplan.status = "OK" /\ ~tplan.island /\ emission = Emitted(tplan.size)
    BY DEF TransferInv
  <2>2. e.status = "OK" /\ tplan.size = e.size /\ tplan.clobbers = e.clobbers
    BY <1>4, <2>1 DEF PlanMatches
  <2>3. tplan.size \in Nat
    BY <1>1 DEF TransferPlans
  <2> HIDE DEF e
  <2> QED BY <1>1, <1>3, <2>1, <2>2, <2>3 DEF e
<1>6. RetrySettles
  <2> SUFFICES ASSUME step = "retried"
               PROVE  /\ emission.status \in {"OK", "FORBIDDEN_CLOBBER"}
                      /\ emission.status = "OK" <=> (tplan.status = "OK" /\ ~tplan.island)
    BY DEF RetrySettles
  <2>1. PICK c \in Nat : /\ Emitted(c).status = "OUTPUT_TOO_SMALL"
                         /\ emission = Emitted(Emitted(c).size)
    BY DEF TransferInv
  <2> DEFINE n == Emitted(c).size
  <2>2. n \in Nat /\ n <= 16
    BY <1>2, <1>3, <2>1 DEF EmitResults
  <2>3. Emitted(n).size = n /\ e.size = n
    BY <1>1, <1>3, <2>2
  <2>4. emission.status \in {"OK", "FORBIDDEN_CLOBBER"}
    BY <1>3, <2>1, <2>2, <2>3
  <2>5. emission.status = "OK" <=> e.status = "OK"
    BY <1>1, <1>3, <2>1, <2>2, <2>3
  <2>6. e.status = "OK" <=> (tplan.status = "OK" /\ ~tplan.island)
    BY <1>4 DEF PlanMatches
  <2> QED BY <2>4, <2>5, <2>6
<1>7. PlanPredicts
  <2> SUFFICES ASSUME step = "guessed", emission.status = "OK"
               PROVE  tplan.status = "OK" /\ ~tplan.island /\ emission.size = tplan.size
    BY DEF PlanPredicts
  <2>1. PICK c \in Nat : emission = Emitted(c)
    BY DEF TransferInv
  <2>2. emission.size <= 16 /\ emission.size = e.size /\ emission.size \in Nat
    BY <1>1, <1>2, <1>3, <2>1 DEF EmitResults
  <2>3. e.status = "OK"
    BY <1>1, <1>3, <2>1, <2>2
  <2> QED BY <1>4, <2>2, <2>3 DEF PlanMatches
<1>8. IslandReachable
  BY DEF TransferInv, IslandReachable
<1> QED BY <1>5, <1>6, <1>7, <1>8

\* The caller starts in it.
LEMMA TransferStarts == TransferInit => TransferInv
<1> SUFFICES ASSUME TransferInit
             PROVE  TransferInv
  OBVIOUS
<1>1. TransferPlan("OK", 0, {}, FALSE, 0, 0) \in TransferPlans
  BY DEF TransferPlan, TransferPlans, Statuses
<1>2. Refused("OK", 0) \in EmitResults
  BY DEF Refused, EmitResults, Statuses
<1>3. step = "start" /\ tries = 0 /\ step \in Steps
  BY DEF TransferInit, Steps
<1>4. TransferTypeOK
  <2>1. mode \in Modes /\ isCall \in BOOLEAN /\ opts \in EmitOptions
    BY DEF TransferInit
  <2>2. from \in Int /\ to \in Int
    BY TransferAssumption DEF TransferInit
  <2>3. tplan \in TransferPlans /\ emission \in EmitResults
    BY <1>1, <1>2, Zenon DEF TransferInit
  <2>4. tries \in 0..2
    BY <1>3
  <2> QED BY <1>3, <2>1, <2>2, <2>3, <2>4 DEF TransferTypeOK
<1> QED BY <1>3, <1>4 DEF TransferInv

\* An emission is well typed, and keeps the arguments and the plan.
LEMMA EmitKeepsTypes ==
    ASSUME TransferTypeOK, NEW dest \in Int, NEW o \in EmitOptions, NEW c \in Nat,
           NEW next \in Steps, tries \in 0..1, Emit(dest, o, c, next)
    PROVE  /\ TransferTypeOK'
           /\ emission' = EmitTransfer(mode, isCall, from, dest, o, c)
           /\ step' = next /\ tries' = tries + 1
           /\ UNCHANGED <<mode, isCall, from, to, opts, tplan>>
<1>1. EmitTransfer(mode, isCall, from, dest, o, c) \in EmitResults
  BY EmitTransferContract DEF TransferTypeOK, Accountable
<1> QED BY <1>1 DEF TransferTypeOK, Emit

\* Every step keeps it.
LEMMA TransferSteps == TransferInv /\ [TransferNext]_transferVars => TransferInv'
<1> SUFFICES ASSUME TransferInv, [TransferNext]_transferVars
             PROVE  TransferInv'
  OBVIOUS
<1> USE DEF TransferInv
<1>1. /\ mode \in Modes /\ isCall \in BOOLEAN /\ from \in Int /\ to \in Int
      /\ opts \in EmitOptions /\ tplan \in TransferPlans /\ emission \in EmitResults
      /\ tplan.size \in Nat /\ emission.size \in Nat
  BY DEF TransferTypeOK, TransferPlans, EmitResults
<1>2. CASE Plan
  <2>1. /\ mode' = mode /\ isCall' = isCall /\ from' = from /\ to' = to /\ opts' = opts
        /\ emission' = emission /\ tries' = tries /\ tries = 0 /\ step' = "planned"
        /\ tplan' = PlanControlTransfer(mode, isCall, from, to, opts)
    BY <1>2 DEF Plan
  <2>2. PlanMatches(tplan', Emitted(PlanScratch), PlanJumpBack(mode, ModeOf(opts)))
    BY <1>1, <2>1, PlanFacts DEF Emitted
  <2>3. TransferTypeOK'
    BY <2>1, <2>2 DEF PlanMatches, TransferTypeOK, Steps
  <2> QED BY <2>1, <2>2, <2>3 DEF Emitted
<1>3. CASE EmitPlanned
  <2>1. step = "planned" /\ tplan.status = "OK" /\ ~tplan.island /\ tries = 0
        /\ Emit(to, opts, tplan.size, "emitted")
    BY <1>3 DEF EmitPlanned
  <2>2. /\ TransferTypeOK' /\ emission' = Emitted(tplan.size)
        /\ step' = "emitted" /\ tries' = 1
        /\ UNCHANGED <<mode, isCall, from, to, opts, tplan>>
    BY <1>1, <2>1, EmitKeepsTypes DEF Steps, Emitted
  <2> QED BY <2>1, <2>2 DEF Emitted
<1>4. CASE EmitGuessed
  <2>1. PICK c \in Buffers : step = "planned" /\ tries = 0 /\ Emit(to, opts, c, "guessed")
    BY <1>4 DEF EmitGuessed
  <2>2. c \in Nat
    BY TransferAssumption
  <2>3. /\ TransferTypeOK' /\ emission' = Emitted(c)
        /\ step' = "guessed" /\ tries' = 1
        /\ UNCHANGED <<mode, isCall, from, to, opts, tplan>>
    BY <1>1, <2>1, <2>2, EmitKeepsTypes DEF Steps, Emitted
  <2> QED BY <2>1, <2>2, <2>3 DEF Emitted
<1>5. CASE Retry
  <2>1. /\ step = "guessed" /\ tries = 1 /\ emission.status = "OUTPUT_TOO_SMALL"
        /\ Emit(to, opts, emission.size, "retried")
    BY <1>5 DEF Retry
  <2>2. PICK c \in Nat : emission = Emitted(c)
    BY <2>1
  <2>3. /\ TransferTypeOK' /\ emission' = Emitted(Emitted(c).size)
        /\ step' = "retried" /\ tries' = 2
        /\ UNCHANGED <<mode, isCall, from, to, opts, tplan>>
    BY <1>1, <2>1, <2>2, EmitKeepsTypes DEF Steps, Emitted
  <2> QED BY <2>1, <2>2, <2>3 DEF Emitted
<1>6. CASE EmitToIsland
  <2> DEFINE o == [opts EXCEPT !.given = TRUE, !.mode = "DIRECT_ONLY"]
             b == PlanJumpBack(mode, ModeOf(opts))
  <2>1. PICK island \in Destinations :
           /\ step = "planned" /\ tplan.status = "OK" /\ tplan.island /\ tries = 0
           /\ tplan.min + Ahead <= island - from /\ island - from <= tplan.max
           /\ (island - from) % PaddingUnit(mode) = 0
           /\ Emit(island, o, tplan.size, "island")
    BY <1>6 DEF EmitToIsland
  <2>2. island \in Int
    BY TransferAssumption
  <2>3. o \in EmitOptions /\ o.given /\ o.mode = "DIRECT_ONLY"
    BY <1>1 DEF EmitOptions, BranchModes
  <2>4. b.status = "OK" /\ tplan.size = b.size /\ tplan.min = b.min /\ tplan.max = b.max
    BY <2>1 DEF PlanMatches
  <2>5. EmitTransfer(mode, FALSE, from, island, o, tplan.size).status = "OK"
    <3> HIDE DEF o
    <3> QED BY <1>1, <2>1, <2>2, <2>3, <2>4, JumpToIsland
  <2>6. /\ TransferTypeOK'
        /\ emission' = EmitTransfer(mode, isCall, from, island, o, tplan.size)
        /\ step' = "island" /\ tries' = 1
        /\ UNCHANGED <<mode, isCall, from, to, opts, tplan>>
    <3> HIDE DEF o
    <3> QED BY <1>1, <2>1, <2>2, <2>3, EmitKeepsTypes DEF Steps
  <2>7. ~isCall => emission'.status = "OK"
    <3>1. ~isCall => isCall = FALSE
      BY <1>1
    <3> QED BY <2>5, <2>6, <3>1
  <2> QED BY <2>1, <2>6, <2>7 DEF Emitted
<1>7. CASE UNCHANGED transferVars
  BY <1>7 DEF transferVars, TransferTypeOK, Emitted
<1> QED BY <1>2, <1>3, <1>4, <1>5, <1>6, <1>7 DEF TransferNext

-----------------------------------------------------------------------------
(***************************************************************************)
(* The theorems.                                                           *)
(***************************************************************************)

\* The invariant the theorems below follow from: the plan and the last
\* emission are what the calls return for the arguments the caller holds.
THEOREM TransferInvariant == TransferSpec => []TransferInv
<1> QED BY TransferStarts, TransferSteps, PTL DEF TransferSpec

\* Every plan and every emission is well typed, for every site, destination
\* and buffer.
THEOREM TransferTypeCorrect == TransferSpec => []TransferTypeOK
<1>1. TransferInv => TransferTypeOK
  BY DEF TransferInv
<1> QED BY <1>1, TransferInvariant, PTL

\* A transfer planned without an island can be emitted into a buffer of the
\* planned size, with the planned clobbers.
THEOREM PlanAlwaysKept == TransferSpec => []PlanIsKept
<1> QED BY TransferInvImplies, TransferInvariant, PTL

\* A call repeated with the size reported with OUTPUT_TOO_SMALL is not refused
\* for its size again, and succeeds exactly when the plan said so.
THEOREM RetryAlwaysSettles == TransferSpec => []RetrySettles
<1> QED BY TransferInvImplies, TransferInvariant, PTL

\* Whatever buffer the caller brings, an emission that succeeds was planned,
\* with its size.
THEOREM PlanAlwaysPredicts == TransferSpec => []PlanPredicts
<1> QED BY TransferInvImplies, TransferInvariant, PTL

\* A jump reaches every island within the distances of its plan, in every mode
\* and for every 32-bit limit.
THEOREM IslandsAlwaysReachable == TransferSpec => []IslandReachable
<1> QED BY TransferInvImplies, TransferInvariant, PTL

-----------------------------------------------------------------------------
(***************************************************************************)
(* Engines and configurations, for feature sets of any size, any CPU table *)
(* and any order of calls.                                                 *)
(***************************************************************************)

\* The flags exclude each other; without a flag nothing has been supplied, and
\* with ALL every word is full, so that adding a feature to it adds nothing.
FlagsAgree(c) ==
    /\ c.flags \in {{}, {"EXPLICIT"}, {"ALL"}}
    /\ c.flags = {} => c.words = NoWords
    /\ c.flags = {"ALL"} => c.words = AllWords

EngineInv ==
    /\ EngineTypeOK
    /\ FlagsAgree(config)
    /\ FlagsAgree(engine.config)
    /\ engine.ops # NoTarget => engine.config.flags # {}
    /\ DispatchFits

\* Identifiers are numbers.
LEMMA IdsAreNat == Ids \subseteq Nat
<1>1. Capacity \in Int
  BY EngineAssumption DEF Capacity
<1> QED BY <1>1 DEF Ids

\* A number is its quotient and its remainder.
LEMMA Division ==
    ASSUME NEW f \in Nat, NEW b \in Nat, b > 0
    PROVE  f = b * (f \div b) + (f % b) /\ f \div b \in Nat /\ f % b \in 0..(b - 1)
OBVIOUS

\* Every feature has a word, and within it a bit, that no other has.
LEMMA FeaturePosition ==
    /\ \A f \in Ids : f \div Bits \in 0..(Words - 1) /\ f % Bits \in 0..(Bits - 1)
    /\ \A f, g \in Ids : f \div Bits = g \div Bits /\ f % Bits = g % Bits => f = g
<1>1. Words \in Nat /\ Bits \in Nat /\ Bits > 0
  BY EngineAssumption
<1>2. ASSUME NEW f \in Ids
      PROVE  f \div Bits \in 0..(Words - 1) /\ f % Bits \in 0..(Bits - 1)
  <2> DEFINE q == f \div Bits
             r == f % Bits
  <2>1. f \in Nat /\ f < Words * Bits
    BY <1>1, IdsAreNat DEF Ids, Capacity
  <2>2. f = Bits * q + r /\ q \in Nat /\ r \in 0..(Bits - 1)
    BY <1>1, <2>1, Division
  <2> HIDE DEF q, r
  <2>3. ASSUME q >= Words PROVE FALSE
    <3>1. Bits * q >= Bits * Words
      BY <1>1, <2>2, <2>3
    <3> QED BY <1>1, <2>1, <2>2, <3>1
  <2>4. q \in 0..(Words - 1)
    BY <1>1, <2>2, <2>3
  <2> QED BY <2>2, <2>4 DEF q, r
<1>3. ASSUME NEW f \in Ids, NEW g \in Ids, f \div Bits = g \div Bits, f % Bits = g % Bits
      PROVE  f = g
  <2>1. /\ f = Bits * (f \div Bits) + (f % Bits)
        /\ g = Bits * (g \div Bits) + (g % Bits)
    BY <1>1, IdsAreNat, Division
  <2> QED BY <1>3, <2>1
<1> QED BY <1>2, <1>3

\* Words are taken apart and put together within their bounds.
LEMMA WordTypes ==
    /\ NoWords \in WordSets /\ AllWords \in WordSets
    /\ \A words \in WordSets, f \in Ids :
          SetBit(words, f) \in WordSets /\ ClearBit(words, f) \in WordSets
    /\ \A key : CpuWords(key) \in WordSets
<1>1. /\ Words \in Nat /\ Words > 0 /\ Bits \in Nat /\ Bits > 0
  BY EngineAssumption
<1>2. ASSUME NEW f \in Nat PROVE f % Bits \in 0..(Bits - 1)
  BY <1>1
<1>3. NoWords \in WordSets /\ AllWords \in WordSets
  BY DEF NoWords, AllWords, WordSets
<1>4. ASSUME NEW words \in WordSets, NEW f \in Ids
      PROVE  SetBit(words, f) \in WordSets /\ ClearBit(words, f) \in WordSets
  <2>1. f % Bits \in 0..(Bits - 1)
    BY <1>2, <1>4 DEF Ids
  <2> QED BY <1>4, <2>1 DEF SetBit, ClearBit, WordSets
<1>5. ASSUME NEW key PROVE CpuWords(key) \in WordSets
  <2> DEFINE ids == {Cpus[key][n] : n \in 1..Len(Cpus[key])}
             set(w) == {f % Bits : f \in {g \in ids : g \div Bits = w}}
  <2>1. CASE ids \subseteq Ids
    <3>1. ASSUME NEW w \in 0..(Words - 1) PROVE set(w) \in SUBSET (0..(Bits - 1))
      <4>1. \A f \in ids : f % Bits \in 0..(Bits - 1)
        <5> HIDE DEF ids
        <5> QED BY <1>2, <2>1, IdsAreNat
      <4> HIDE DEF ids
      <4> QED BY <4>1
    <3>2. CpuWords(key) = [w \in 0..(Words - 1) |-> set(w)]
      BY <2>1 DEF CpuWords
    <3> HIDE DEF set
    <3> QED BY <3>1, <3>2 DEF WordSets
  <2>2. CASE ~(ids \subseteq Ids)
    BY <1>3, <2>2 DEF CpuWords
  <2> QED BY <2>1, <2>2
<1> QED BY <1>3, <1>4, <1>5

\* What the operations on a configuration return.
LEMMA ConfigTypes ==
    /\ \A arch \in AllArchs, form \in AllModes :
          /\ NewConfig(arch, form) \in Configs
          /\ FlagsAgree(NewConfig(arch, form))
    /\ \A c \in Configs, words \in WordSets : FlagsAgree(c) =>
          /\ WithFeatures(c, words) \in Configs
          /\ WithFeatures(c, words).flags = {"EXPLICIT"}
          /\ WithFeatures(c, words).words = words
    /\ \A c \in Configs : FlagsAgree(c) =>
          Resolved(c) \in Configs /\ FlagsAgree(Resolved(c)) /\ Resolved(c).flags # {}
<1>1. ASSUME NEW arch \in AllArchs, NEW form \in AllModes
      PROVE  NewConfig(arch, form) \in Configs /\ FlagsAgree(NewConfig(arch, form))
  BY WordTypes DEF NewConfig, Configs, FlagsAgree
<1>2. ASSUME NEW c \in Configs, NEW words \in WordSets, FlagsAgree(c)
      PROVE  /\ WithFeatures(c, words) \in Configs
             /\ WithFeatures(c, words).flags = {"EXPLICIT"}
             /\ WithFeatures(c, words).words = words
  <2>1. (c.flags \cup {"EXPLICIT"}) \ {"ALL"} = {"EXPLICIT"}
    BY <1>2 DEF FlagsAgree
  <2>2. WithFeatures(c, words) =
          [c EXCEPT !.words = words, !.flags = {"EXPLICIT"}]
    BY <2>1 DEF WithFeatures
  <2> QED BY <1>2, <2>2 DEF Configs
<1>3. ASSUME NEW c \in Configs, FlagsAgree(c)
      PROVE  Resolved(c) \in Configs /\ FlagsAgree(Resolved(c)) /\ Resolved(c).flags # {}
  <2> DEFINE m == IF c.mode = "default" THEN DefaultMode(c.arch) ELSE c.mode
  <2>1. m \in AllModes
    BY <1>3 DEF Configs, AllArchs, AllModes, DefaultMode
  <2>2. CASE "EXPLICIT" \notin c.flags
    <3>1. c.flags \cup {"ALL"} = {"ALL"}
      BY <1>3, <2>2 DEF FlagsAgree
    <3>2. Resolved(c) = [c EXCEPT !.mode = m, !.words = AllWords, !.flags = {"ALL"}]
      BY <2>2, <3>1 DEF Resolved
    <3> HIDE DEF m
    <3> QED BY <1>3, <2>1, <3>2, WordTypes DEF Configs, FlagsAgree
  <2>3. CASE "EXPLICIT" \in c.flags
    <3>1. c.flags = {"EXPLICIT"}
      BY <1>3, <2>3 DEF FlagsAgree
    <3>2. Resolved(c) = [c EXCEPT !.mode = m]
      BY <3>1 DEF Resolved
    <3> HIDE DEF m
    <3> QED BY <1>3, <2>1, <3>1, <3>2 DEF Configs, FlagsAgree
  <2> QED BY <2>2, <2>3
<1> QED BY <1>1, <1>2, <1>3

\* A configuration that has been initialised fulfils the invariant,
LEMMA EngineStarts == EngineStart => EngineInv
<1> SUFFICES ASSUME EngineStart PROVE EngineInv
  OBVIOUS
<1>1. PICK a \in Archs, m \in ArchModes : config = NewConfig(a, m)
  BY DEF EngineStart
<1>2. a \in AllArchs /\ m \in AllModes
  BY <1>1, EngineAssumption
<1>3. config \in Configs /\ FlagsAgree(config)
  BY <1>1, <1>2, ConfigTypes
<1>4. NewConfig("x86", "default") \in Configs /\ FlagsAgree(NewConfig("x86", "default"))
  BY ConfigTypes DEF AllArchs, AllModes
<1>5. engine.config = NewConfig("x86", "default") /\ engine.ops = NoTarget
      /\ engine \in [config: Configs, ops: Targets \cup {NoTarget}]
  BY <1>4 DEF EngineStart, ZeroEngine
<1> QED BY <1>3, <1>4, <1>5, WordTypes DEF EngineInv, EngineTypeOK, DispatchFits, EngineStart

\* An initialisation leaves the object as it was or makes it consistent.
LEMMA InitialisedInv ==
    ASSUME EngineInv, NEW old \in [config: Configs, ops: Targets \cup {NoTarget}],
           FlagsAgree(old.config),
           old.ops # NoTarget => old.config.flags # {},
           old.ops # NoTarget => old.ops = OpsOf(old.config.arch, old.config.mode)
    PROVE  LET new == Initialised(old)
           IN  /\ new \in [config: Configs, ops: Targets \cup {NoTarget}]
               /\ FlagsAgree(new.config)
               /\ new.ops # NoTarget => new.config.flags # {}
               /\ new.ops # NoTarget => new.ops = OpsOf(new.config.arch, new.config.mode)
<1> DEFINE c   == Resolved(config)
           ops == OpsOf(c.arch, c.mode)
<1>1. c \in Configs /\ FlagsAgree(c) /\ c.flags # {}
  BY ConfigTypes DEF EngineInv, EngineTypeOK
<1>2. ops \in Targets \cup {NoTarget}
  BY DEF OpsOf, Targets
<1>3. Initialised(old) = IF ops = NoTarget THEN old ELSE [config |-> c, ops |-> ops]
  BY DEF Initialised
<1>4. CASE ops = NoTarget
  BY <1>3, <1>4
<1>5. CASE ops # NoTarget
  <2>1. Initialised(old).config = c /\ Initialised(old).ops = OpsOf(c.arch, c.mode)
    BY <1>3, <1>5
  <2> HIDE DEF c
  <2> QED BY <1>1, <1>2, <1>3, <1>5, <2>1
<1> QED BY <1>4, <1>5

\* A call that leaves the engine alone and the configuration well formed.
LEMMA ConfigStep ==
    ASSUME EngineInv, fs' \in WordSets, config' \in Configs, FlagsAgree(config'),
           UNCHANGED engine,
           returned' \in {"OK", "UNSUPPORTED_FEATURE", "UNSUPPORTED_MODE",
                          "UNSUPPORTED_TARGET_OPERATION"}
    PROVE  EngineInv'
<1>1. FlagsAgree(config)' /\ FlagsAgree(engine.config)'
  BY DEF EngineInv, FlagsAgree
<1> QED BY <1>1 DEF EngineInv, EngineTypeOK, DispatchFits

\* An initialisation, of an engine or of an object that is cleared first.
LEMMA InitStep ==
    ASSUME EngineInv, EngineInit \/ DecoderInit
    PROVE  EngineInv'
<1>1. NewConfig("x86", "default") \in Configs /\ FlagsAgree(NewConfig("x86", "default"))
  BY ConfigTypes DEF AllArchs, AllModes
<1>2. ZeroEngine \in [config: Configs, ops: Targets \cup {NoTarget}]
      /\ ZeroEngine.config = NewConfig("x86", "default") /\ ZeroEngine.ops = NoTarget
  BY <1>1 DEF ZeroEngine
<1>3. PICK old \in {engine, ZeroEngine} : engine' = Initialised(old)
  BY DEF EngineInit, DecoderInit
<1>4. /\ old \in [config: Configs, ops: Targets \cup {NoTarget}]
      /\ FlagsAgree(old.config)
      /\ old.ops # NoTarget => old.config.flags # {}
      /\ old.ops # NoTarget => old.ops = OpsOf(old.config.arch, old.config.mode)
  BY <1>1, <1>2, <1>3 DEF EngineInv, EngineTypeOK, DispatchFits
<1>5. /\ engine' \in [config: Configs, ops: Targets \cup {NoTarget}]
      /\ FlagsAgree(engine'.config)
      /\ engine'.ops # NoTarget => engine'.config.flags # {}
      /\ engine'.ops # NoTarget => engine'.ops = OpsOf(engine'.config.arch, engine'.config.mode)
  BY <1>3, <1>4, InitialisedInv
<1>6. /\ UNCHANGED <<fs, config>>
      /\ returned' \in {"OK", "UNSUPPORTED_MODE"}
  BY DEF EngineInit, DecoderInit, InitStatus
<1> QED BY <1>5, <1>6 DEF EngineInv, EngineTypeOK, DispatchFits, FlagsAgree

\* Every call keeps the invariant.
LEMMA EngineSteps == EngineInv /\ [EngineNext]_engineVars => EngineInv'
<1> SUFFICES ASSUME EngineInv, [EngineNext]_engineVars PROVE EngineInv'
  OBVIOUS
<1> USE DEF EngineInv, EngineTypeOK
<1>1. CASE UNCHANGED engineVars
  BY <1>1 DEF engineVars, DispatchFits, FlagsAgree
<1>2. CASE FeatureSetClear \/ FeatureSetFill
  BY <1>2, ConfigStep, WordTypes DEF FeatureSetClear, FeatureSetFill
<1>3. CASE GetFeatures
  BY <1>3, ConfigStep, WordTypes DEF GetFeatures, Stored, Configs
<1>4. CASE SetFeatures
  <2>1. WithFeatures(config, fs) \in Configs /\ WithFeatures(config, fs).flags = {"EXPLICIT"}
    BY ConfigTypes
  <2> QED BY <1>4, <2>1, ConfigStep DEF SetFeatures, FlagsAgree
<1>5. CASE EnableAllFeatures
  <2>1. (config.flags \cup {"ALL"}) \ {"EXPLICIT"} = {"ALL"}
    BY DEF FlagsAgree
  <2>2. config' = [config EXCEPT !.words = AllWords, !.flags = {"ALL"}]
    BY <1>5, <2>1 DEF EnableAllFeatures
  <2>3. config' \in Configs /\ FlagsAgree(config')
    BY <2>2, WordTypes DEF Configs, FlagsAgree
  <2> QED BY <1>5, <2>3, ConfigStep DEF EnableAllFeatures
<1>6. CASE CopyConfig
  BY <1>6, ConfigStep DEF CopyConfig
<1>7. CASE EngineInit \/ DecoderInit
  BY <1>7, InitStep
<1>8. ASSUME NEW f \in 0..Capacity, FeatureSetEnable(f) \/ FeatureSetDisable(f)
      PROVE  EngineInv'
  BY <1>8, ConfigStep, WordTypes DEF FeatureSetEnable, FeatureSetDisable
<1>9. ASSUME NEW f \in 0..Capacity, EnableFeature(f)
      PROVE  EngineInv'
  <2>1. CASE f \in Ids
    <3>1. SetBit(config.words, f) \in WordSets
      BY <2>1, WordTypes DEF Configs
    <3>2. config' \in Configs /\ FlagsAgree(config')
      BY <1>9, <2>1, <3>1, ConfigTypes DEF EnableFeature, FlagsAgree
    <3> QED BY <1>9, <2>1, <3>2, ConfigStep DEF EnableFeature
  <2>2. CASE f \notin Ids
    BY <1>9, <2>2, ConfigStep DEF EnableFeature
  <2> QED BY <2>1, <2>2
<1>10. ASSUME NEW key, FeatureSetFromCpu(key)
       PROVE  EngineInv'
  BY <1>10, ConfigStep, WordTypes DEF FeatureSetFromCpu, CpuStatus
<1>11. ASSUME NEW key, EnableCpuFeatures(key)
       PROVE  EngineInv'
  <2>1. WithFeatures(config, CpuWords(key)) \in Configs
        /\ FlagsAgree(WithFeatures(config, CpuWords(key)))
    <3>1. CpuWords(key) \in WordSets
      BY WordTypes
    <3>2. /\ WithFeatures(config, CpuWords(key)) \in Configs
          /\ WithFeatures(config, CpuWords(key)).flags = {"EXPLICIT"}
      BY <3>1, ConfigTypes
    <3> QED BY <3>2 DEF FlagsAgree
  <2> QED BY <1>11, <2>1, ConfigStep DEF EnableCpuFeatures, CpuStatus
<1>12. ASSUME NEW a \in Archs, NEW m \in ArchModes, ConfigInit(a, m)
       PROVE  EngineInv'
  <2>1. a \in AllArchs /\ m \in AllModes
    BY EngineAssumption
  <2> QED BY <1>12, <2>1, ConfigTypes, ConfigStep DEF ConfigInit
<1> QED BY <1>1, <1>2, <1>3, <1>4, <1>5, <1>6, <1>7, <1>8, <1>9, <1>10, <1>11, <1>12
        DEF EngineNext

\* and so does whatever follows.
LEMMA EngineInvariant == EngineSpec => []EngineInv
BY EngineStarts, EngineSteps, PTL DEF EngineSpec

\* Configurations and engines keep their types, whatever is called.
THEOREM EngineTypeCorrect == EngineSpec => []EngineTypeOK
<1>1. EngineInv => EngineTypeOK
  BY DEF EngineInv
<1> QED BY <1>1, EngineInvariant, PTL

\* An engine dispatches to the operations of its own architecture and mode,
\* also after failed attempts to initialise it for something else.
THEOREM DispatchAlwaysFits == EngineSpec => []DispatchFits
<1>1. EngineInv => DispatchFits
  BY DEF EngineInv
<1> QED BY <1>1, EngineInvariant, PTL

\* Setting on a configuration the features read back from it makes the same
\* engine, or one without features if none had been given to it.
THEOREM ReadBackAlways == EngineSpec => []ReadBack
<1>1. ASSUME EngineInv PROVE ReadBack
  <2> DEFINE c == WithFeatures(config, Stored(config))
  <2> SUFFICES FeaturesOf(Resolved(c))
                   = IF IsDefault(config) THEN {} ELSE FeaturesOf(Resolved(config))
    BY DEF ReadBack
  <2>1. Stored(config) \in WordSets
    BY <1>1, WordTypes DEF EngineInv, EngineTypeOK, Stored, Configs
  <2>2. c \in Configs /\ c.flags = {"EXPLICIT"} /\ c.words = Stored(config)
    BY <1>1, <2>1, ConfigTypes DEF EngineInv, EngineTypeOK
  <2>3. Resolved(c).flags = {"EXPLICIT"} /\ Resolved(c).words = Stored(config)
    <3> HIDE DEF c
    <3> QED BY <2>2 DEF Resolved, Configs
  <2>4. FeaturesOf(Resolved(c)) = IdsOf([w \in 0..(Words - 1) |-> Stored(config)[w]])
    <3> HIDE DEF c
    <3> QED BY <2>3 DEF FeaturesOf, FeatureWord
  <2>5. CASE config.flags = {"ALL"}
    <3>1. Resolved(config).flags = {"ALL"}
      BY <1>1, <2>5 DEF Resolved, EngineInv, EngineTypeOK, Configs
    <3>2. Stored(config) = AllWords
      BY <2>5 DEF Stored
    <3> QED BY <2>4, <2>5, <3>1, <3>2 DEF FeaturesOf, FeatureWord, AllWords, IsDefault
  <2>6. CASE config.flags = {"EXPLICIT"}
    <3>1. Resolved(config).flags = {"EXPLICIT"} /\ Resolved(config).words = config.words
      BY <1>1, <2>6 DEF Resolved, EngineInv, EngineTypeOK, Configs
    <3>2. Stored(config) = config.words
      BY <2>6 DEF Stored
    <3> QED BY <2>4, <2>6, <3>1, <3>2 DEF FeaturesOf, FeatureWord, IsDefault
  <2>7. CASE config.flags = {}
    <3>1. IsDefault(config) /\ Stored(config) = NoWords
      BY <1>1, <2>7 DEF EngineInv, FlagsAgree, IsDefault, Stored
    <3>2. FeaturesOf(Resolved(c)) = IdsOf(NoWords)
      BY <2>4, <3>1 DEF NoWords
    <3>3. IdsOf(NoWords) = {}
      BY FeaturePosition DEF IdsOf, NoWords
    <3> QED BY <3>1, <3>2, <3>3
  <2> QED BY <1>1, <2>5, <2>6, <2>7 DEF EngineInv, FlagsAgree
<1> QED BY <1>1, EngineInvariant, PTL

-----------------------------------------------------------------------------
(***************************************************************************)
(* The refinement.                                                         *)
(***************************************************************************)

\* The features of sets of words, and of the operations on them.
LEMMA FeaturesOfWords ==
    /\ IdsOf(NoWords) = {} /\ IdsOf(AllWords) = Ids
    /\ \A words \in WordSets, f \in Ids : IdsOf(SetBit(words, f)) = IdsOf(words) \cup {f}
<1>1. IdsOf(NoWords) = {} /\ IdsOf(AllWords) = Ids
  BY FeaturePosition DEF IdsOf, NoWords, AllWords
<1>2. ASSUME NEW words \in WordSets, NEW f \in Ids
      PROVE  IdsOf(SetBit(words, f)) = IdsOf(words) \cup {f}
  <2>1. ASSUME NEW g \in Ids
        PROVE  g % Bits \in SetBit(words, f)[g \div Bits] <=> g % Bits \in words[g \div Bits] \/ g = f
    <3>1. g \div Bits \in 0..(Words - 1) /\ f \div Bits \in 0..(Words - 1)
      BY FeaturePosition
    <3>2. CASE g \div Bits = f \div Bits
      <4>1. SetBit(words, f)[g \div Bits] = words[g \div Bits] \cup {f % Bits}
        BY <3>1, <3>2 DEF SetBit, WordSets
      <4>2. g % Bits = f % Bits <=> g = f
        BY <3>2, FeaturePosition
      <4> QED BY <4>1, <4>2
    <3>3. CASE g \div Bits # f \div Bits
      <4>1. SetBit(words, f)[g \div Bits] = words[g \div Bits]
        BY <3>1, <3>3 DEF SetBit, WordSets
      <4> QED BY <3>3, <4>1
    <3> QED BY <3>2, <3>3
  <2> QED BY <2>1 DEF IdsOf
<1> QED BY <1>1, <1>2

\* What an engine with this configuration consults is what its words say.
LEMMA FeaturesAreWords ==
    ASSUME NEW c \in Configs, FlagsAgree(c)
    PROVE  /\ FeaturesOf(c) = IdsOf(c.words)
           /\ IsDefault(c) <=> c.flags = {}
           /\ Resolved(c).flags # {}
           /\ FeaturesOf(Resolved(c)) = IF IsDefault(c) THEN Ids ELSE FeaturesOf(c)
<1>1. ASSUME NEW d \in Configs, FlagsAgree(d)
      PROVE  FeaturesOf(d) = IdsOf(d.words)
  <2>1. CASE "ALL" \in d.flags
    <3>1. d.words = AllWords
      BY <1>1, <2>1 DEF FlagsAgree
    <3> QED BY <2>1, <3>1 DEF FeaturesOf, FeatureWord, AllWords
  <2>2. CASE "ALL" \notin d.flags
    <3>1. d.words = [w \in 0..(Words - 1) |-> d.words[w]]
      BY <1>1 DEF Configs, WordSets
    <3> QED BY <2>2, <3>1 DEF FeaturesOf, FeatureWord
  <2> QED BY <2>1, <2>2
<1>2. IsDefault(c) <=> c.flags = {}
  BY DEF IsDefault, FlagsAgree
<1>3. Resolved(c) \in Configs /\ FlagsAgree(Resolved(c))
  BY ConfigTypes
<1>4. CASE c.flags = {"EXPLICIT"}
  <2>1. Resolved(c).words = c.words /\ Resolved(c).flags = {"EXPLICIT"}
    BY <1>4 DEF Resolved, Configs
  <2> QED BY <1>1, <1>2, <1>3, <1>4, <2>1
<1>5. CASE c.flags # {"EXPLICIT"}
  <2>1. c.flags = {} \/ c.flags = {"ALL"}
    BY <1>5 DEF FlagsAgree
  <2>2. Resolved(c).words = AllWords /\ Resolved(c).flags = {"ALL"}
    BY <2>1 DEF Resolved, Configs
  <2>3. FeaturesOf(Resolved(c)) = Ids
    BY <1>1, <1>3, <2>2, FeaturesOfWords
  <2>4. c.flags = {"ALL"} => FeaturesOf(c) = Ids
    BY <1>1, FeaturesOfWords DEF FlagsAgree
  <2> QED BY <1>1, <1>2, <2>1, <2>2, <2>3, <2>4
<1> QED BY <1>4, <1>5

\* The abstract state, as the refinement mapping gives it.
Wanted == IF IsDefault(config) THEN <<>> ELSE <<FeaturesOf(config)>>
Has    == IF engine.ops = NoTarget THEN <<>> ELSE <<FeaturesOf(engine.config)>>

\* Each call is a step of the promise, or changes nothing it speaks of.
LEMMA PromiseStep ==
    ASSUME EngineInv, [EngineNext]_engineVars
    PROVE  Promise!Next \/ UNCHANGED <<Wanted, Has>>
<1> USE DEF EngineInv, EngineTypeOK
<1>1. CASE UNCHANGED <<config, engine>>
  BY <1>1 DEF Wanted, Has, IsDefault, FeaturesOf, FeatureWord
<1>2. ASSUME UNCHANGED engine, NEW words \in WordSets,
             config' = WithFeatures(config, words)
      PROVE  Wanted' = <<IdsOf(words)>> /\ UNCHANGED Has
  <2>1. /\ config' \in Configs /\ config'.flags = {"EXPLICIT"} /\ config'.words = words
        /\ FlagsAgree(config')
    BY <1>2, ConfigTypes DEF FlagsAgree
  <2>2. FeaturesOf(config') = IdsOf(words) /\ ~IsDefault(config')
    BY <2>1, FeaturesAreWords
  <2> QED BY <1>2, <2>2 DEF Wanted, Has
<1>3. ASSUME UNCHANGED engine, NEW words \in WordSets,
             config' = WithFeatures(config, words)
      PROVE  Promise!Next
  <2>1. IdsOf(words) \in SUBSET Ids
    BY DEF IdsOf
  <2>2. Promise!Supply(IdsOf(words))
    BY <1>2, <1>3 DEF Promise!Supply, Wanted, Has
  <2> QED BY <2>1, <2>2 DEF Promise!Next
<1>4. CASE SetFeatures
  BY <1>3, <1>4 DEF SetFeatures
<1>5. CASE EnableAllFeatures
  <2>1. (config.flags \cup {"ALL"}) \ {"EXPLICIT"} = {"ALL"}
    BY DEF FlagsAgree
  <2>2. config' = [config EXCEPT !.words = AllWords, !.flags = {"ALL"}]
    BY <1>5, <2>1 DEF EnableAllFeatures
  <2>3. /\ config' \in Configs /\ FlagsAgree(config')
        /\ config'.words = AllWords /\ config'.flags # {}
    BY <2>2, WordTypes DEF Configs, FlagsAgree
  <2>4. Wanted' = <<Ids>> /\ UNCHANGED Has
    BY <1>5, <2>3, FeaturesAreWords, FeaturesOfWords DEF EnableAllFeatures, Wanted, Has
  <2>5. Promise!Supply(Ids)
    BY <2>4 DEF Promise!Supply, Wanted, Has
  <2> QED BY <2>5 DEF Promise!Next
<1>6. CASE CopyConfig
  <2>1. engine.ops # NoTarget /\ config' = engine.config /\ UNCHANGED engine
    BY <1>6 DEF CopyConfig
  <2>2. ~IsDefault(engine.config)
    BY <2>1, FeaturesAreWords
  <2>3. Promise!Copy
    BY <2>1, <2>2 DEF Promise!Copy
  <2> QED BY <2>3 DEF Promise!Next
<1>7. CASE EngineInit \/ DecoderInit
  <2> DEFINE ops == OpsOf(Resolved(config).arch, Resolved(config).mode)
  <2>1. UNCHANGED config
    BY <1>7 DEF EngineInit, DecoderInit
  <2>2. CASE ops = NoTarget
    <3>1. engine' = engine \/ engine' = ZeroEngine
      BY <1>7, <2>2 DEF EngineInit, DecoderInit, Initialised
    <3>2. ZeroEngine.ops = NoTarget
      BY DEF ZeroEngine
    <3>3. UNCHANGED Wanted /\ Has' \in {Has, <<>>}
      BY <2>1, <3>1, <3>2 DEF Wanted, Has
    <3>4. Promise!CreateFails
      BY <3>3 DEF Promise!CreateFails, Wanted, Has
    <3> QED BY <3>4 DEF Promise!Next
  <2>3. CASE ops # NoTarget
    <3>1. engine'.config = Resolved(config) /\ engine'.ops # NoTarget
      <4>1. engine' = [config |-> Resolved(config), ops |-> ops]
        BY <1>7, <2>3 DEF EngineInit, DecoderInit, Initialised
      <4> HIDE DEF ops
      <4> QED BY <2>3, <4>1
    <3>2. Has' = <<IF IsDefault(config) THEN Ids ELSE FeaturesOf(config)>>
      BY <3>1, FeaturesAreWords DEF Has
    <3>3. Has' = (IF Wanted = <<>> THEN <<Ids>> ELSE Wanted) /\ UNCHANGED Wanted
      BY <2>1, <3>2 DEF Wanted
    <3>4. Promise!Create
      BY <3>3 DEF Promise!Create, Wanted, Has
    <3> QED BY <3>4 DEF Promise!Next
  <2> QED BY <2>2, <2>3
<1>8. ASSUME NEW f \in 0..Capacity, EnableFeature(f)
      PROVE  Promise!Next \/ UNCHANGED <<config, engine>>
  <2>1. CASE f \notin Ids
    BY <1>8, <2>1 DEF EnableFeature
  <2>2. CASE f \in Ids
    <3>1. /\ UNCHANGED engine /\ SetBit(config.words, f) \in WordSets
          /\ config' = WithFeatures(config, SetBit(config.words, f))
      BY <1>8, <2>2, WordTypes DEF EnableFeature, Configs
    <3>2. Wanted' = <<IdsOf(config.words) \cup {f}>> /\ UNCHANGED Has
      <4>1. IdsOf(SetBit(config.words, f)) = IdsOf(config.words) \cup {f}
        BY <2>2, FeaturesOfWords DEF Configs
      <4> QED BY <1>2, <3>1, <4>1
    <3>3. Wanted = IF IsDefault(config) THEN <<>> ELSE <<IdsOf(config.words)>>
      BY FeaturesAreWords DEF Wanted
    <3>4. IsDefault(config) => IdsOf(config.words) = {}
      BY FeaturesOfWords DEF IsDefault
    <3>5. Wanted' = IF Wanted = <<>> THEN <<{f}>> ELSE <<Wanted[1] \cup {f}>>
      BY <3>2, <3>3, <3>4
    <3>6. Promise!Add(f)
      BY <3>2, <3>5 DEF Promise!Add, Wanted, Has
    <3> QED BY <2>2, <3>6 DEF Promise!Next
  <2> QED BY <2>1, <2>2
<1>9. ASSUME NEW key, EnableCpuFeatures(key)
      PROVE  Promise!Next \/ UNCHANGED <<config, engine>>
  <2>1. CpuWords(key) \in WordSets
    BY WordTypes
  <2> QED BY <1>3, <1>9, <2>1 DEF EnableCpuFeatures
<1>10. ASSUME NEW a \in Archs, NEW m \in ArchModes, ConfigInit(a, m)
       PROVE  Promise!Next
  <2>1. IsDefault(config)' /\ UNCHANGED engine
    BY <1>10 DEF ConfigInit, NewConfig, IsDefault
  <2>2. Promise!Restart
    BY <2>1 DEF Promise!Restart
  <2> QED BY <2>2 DEF Promise!Next
<1>11. CASE UNCHANGED engineVars
  BY <1>1, <1>11 DEF engineVars
<1>12. CASE FeatureSetClear \/ FeatureSetFill \/ GetFeatures
  BY <1>1, <1>12 DEF FeatureSetClear, FeatureSetFill, GetFeatures
<1>13. ASSUME NEW f \in 0..Capacity, FeatureSetEnable(f) \/ FeatureSetDisable(f)
       PROVE  UNCHANGED <<config, engine>>
  BY <1>13 DEF FeatureSetEnable, FeatureSetDisable
<1>14. ASSUME NEW key, FeatureSetFromCpu(key)
       PROVE  UNCHANGED <<config, engine>>
  BY <1>14 DEF FeatureSetFromCpu
<1> QED BY <1>1, <1>4, <1>5, <1>6, <1>7, <1>8, <1>9, <1>10, <1>11, <1>12, <1>13, <1>14
        DEF EngineNext

\* An engine has exactly the features supplied by the calls on its
\* configuration, or all if there was none, and keeps them: for feature sets
\* of any size and any CPU table.
THEOREM EngineKeepsPromise == EngineSpec => ImplementsPromise
<1>1. EngineStart => Promise!Init
  BY DEF EngineStart, Promise!Init, IsDefault, NewConfig, ZeroEngine
<1>2. EngineInv /\ [EngineNext]_engineVars => Promise!Next \/ UNCHANGED <<Wanted, Has>>
  BY PromiseStep
<1>3. EngineInv /\ [EngineNext]_engineVars => [Promise!Next]_<<Wanted, Has>>
  BY <1>2
<1> QED BY <1>1, <1>3, EngineInvariant, PTL
        DEF EngineSpec, ImplementsPromise, Promise!Spec, Wanted, Has
=============================================================================
