----------------------------- MODULE TargetOps ------------------------------
(***************************************************************************)
(* The operation table every engine dispatches through (asmkit_target_ops) *)
(* and the public emitters on top of it (asmkit_emit.c).  Emit options are *)
(* [given, mode, allowed]; `given' is FALSE for the C caller's null        *)
(* pointer, which stands for branch mode AUTO.                             *)
(***************************************************************************)
EXTENDS X86Target, ArmTarget, A64Target

(***************************************************************************)
(* The overlays of the bytecode targets (asmkit_bpf_overlay.c and          *)
(* asmkit_wasm_overlay.c).  Both analyze instructions; neither emits or    *)
(* relocates any, and every such call is refused and reports nothing.  The *)
(* class "pseudo" stands for BPF_PSEUDO, "structured" for the five classes *)
(* of WebAssembly's block instructions.                                    *)
(***************************************************************************)
BpfAnalyze(inst) ==
    [kind    |-> IF inst.cls = "pseudo" THEN "REJECT"
                 ELSE IF inst.cls \in {"directBranch", "condBranch"} THEN "REENCODE" ELSE "COPY",
     max     |-> inst.size,
     hazards |-> (IF inst.cls = "pseudo" THEN {"UNSUPPORTED_RELOC"} ELSE {})
                   \cup (IF inst.cls \in {"directBranch", "condBranch"}
                         THEN {"BRANCH", "PC_RELATIVE"} ELSE {})
                   \cup (IF inst.cls = "directCall" THEN {"CALL"} ELSE {})
                   \cup (IF inst.cls = "return" THEN {"RETURN"} ELSE {})]

WasmBranches == {"directBranch", "condBranch", "indirectBranch"}

WasmAnalyze(inst) ==
    [kind    |-> "COPY",
     max     |-> inst.size,
     hazards |-> (IF inst.cls \in WasmBranches THEN {"BRANCH"} ELSE {})
                   \cup (IF inst.cls \in WasmBranches \cup {"return", "structured"}
                         THEN {"STRUCTURED_CF"} ELSE {})
                   \cup (IF inst.cls \in {"directCall", "indirectCall"} THEN {"CALL"} ELSE {})
                   \cup (IF inst.cls = "return" THEN {"RETURN"} ELSE {})]

VmAnalyze(m, inst) == IF m = "bpf64" THEN BpfAnalyze(inst) ELSE WasmAnalyze(inst)

BpfEmit  == Refused("UNSUPPORTED_TARGET_OPERATION", 0)
WasmEmit == Refused("UNSUPPORTED_TARGET_OPERATION", 0)

VmEmit(m) == IF m = "bpf64" THEN BpfEmit ELSE WasmEmit

BpfRelocate  == Refused("UNSUPPORTED_TARGET_OPERATION", 0)
WasmRelocate == Refused("UNSUPPORTED_TARGET_OPERATION", 0)

VmRelocate(m) == IF m = "bpf64" THEN BpfRelocate ELSE WasmRelocate

BpfMinPatch  == [size |-> 0, clobbers |-> {}]
WasmMinPatch == [size |-> 0, clobbers |-> {}]

VmMinPatch(m) == IF m = "bpf64" THEN BpfMinPatch ELSE WasmMinPatch

BpfPlanJumpBack  == Bound("UNSUPPORTED_TARGET_OPERATION", 0, FALSE, 0, 0, {})
WasmPlanJumpBack == Bound("UNSUPPORTED_TARGET_OPERATION", 0, FALSE, 0, 0, {})

VmPlanJumpBack(m) == IF m = "bpf64" THEN BpfPlanJumpBack ELSE WasmPlanJumpBack

\* The branch facts of the two analyses: BPF leaves the indirect jump out and
\* gives every branch a target; WebAssembly's branches name a block, not an
\* address.
VmBranches(m) ==
    IF m = "bpf64" THEN {"directBranch", "condBranch"} ELSE WasmBranches
VmCalls(m) ==
    IF m = "bpf64" THEN {"directCall"} ELSE {"directCall", "indirectCall"}
VmHasTarget(m, inst) == m = "bpf64" /\ inst.cls \in VmBranches(m)

-----------------------------------------------------------------------------
(***************************************************************************)
(* The dispatch and the public emitters.                                   *)
(***************************************************************************)
EmitOptions == [given: BOOLEAN, mode: BranchModes, allowed: SUBSET Regs]

ModeOf(opts) == IF opts.given THEN opts.mode ELSE "AUTO"

Analyze(m, inst) ==
    IF m \in X86Modes THEN X86Analyze(inst)
    ELSE IF m = "a64" THEN A64Analyze(inst)
    ELSE IF m \in VmModes THEN VmAnalyze(m, inst)
    ELSE ArmAnalyze(inst)

RelocateInst(m, inst, raddr, cap) ==
    IF m \in X86Modes THEN X86Relocate(m, inst, raddr, cap)
    ELSE IF m = "a64" THEN A64Relocate(inst, raddr, cap)
    ELSE IF m \in VmModes THEN VmRelocate(m)
    ELSE ArmRelocate(m, inst, raddr, cap)

MinPatchSize(m, from, to, bmode) ==
    IF m \in X86Modes THEN X86MinPatch(m, from, to, bmode)
    ELSE IF m = "a64" THEN A64MinPatch(from, to, bmode)
    ELSE IF m \in VmModes THEN VmMinPatch(m)
    ELSE ArmMinPatch(m, from, to, bmode)

PlanJumpBack(m, bmode) ==
    IF m \in X86Modes THEN X86PlanJumpBack(m, bmode)
    ELSE IF m = "a64" THEN A64PlanJumpBack(bmode)
    ELSE IF m \in VmModes THEN VmPlanJumpBack(m)
    ELSE ArmPlanJumpBack(m, bmode)

TargetEmit(m, isCall, from, to, opts, cap) ==
    IF m \in X86Modes THEN X86Emit(m, isCall, from, to, ModeOf(opts), cap)
    ELSE IF m = "a64"
    THEN A64Emit(isCall, from, to, ModeOf(opts), opts.given, opts.allowed, cap)
    ELSE IF m \in VmModes THEN VmEmit(m)
    ELSE ArmEmit(m, isCall, from, to, ModeOf(opts), cap)

ClobbersAllowed(opts, clobbers) ==
    \/ clobbers = {}
    \/ ~opts.given
    \/ opts.mode # "PREFER_CLOBBERLESS" /\ clobbers \subseteq opts.allowed

\* The sequence has been written by the time its clobbers are judged.
EmitFinish(opts, r) ==
    IF r.status = "OK" /\ ~ClobbersAllowed(opts, r.clobbers)
    THEN [r EXCEPT !.status = "FORBIDDEN_CLOBBER"]
    ELSE r

EmitTransfer(m, isCall, from, to, opts, cap) ==
    EmitFinish(opts, TargetEmit(m, isCall, from, to, opts, cap))

EmitJump(m, from, to, opts, cap) == EmitTransfer(m, FALSE, from, to, opts, cap)

\* asmkit_emit_padding: `size' bytes of whole no-operations.
PaddingUnit(m) == IF m \in X86Modes THEN 1 ELSE IF m = "thumb" THEN 2 ELSE 4

EmitPadding(m, size, cap) ==
    IF size = 0 THEN Refused("INVALID_ARGUMENT", 0)
    ELSE IF cap < size THEN Refused("OUTPUT_TOO_SMALL", size)
    ELSE IF m \in VmModes THEN Refused("UNSUPPORTED_TARGET_OPERATION", size)
    ELSE IF size % PaddingUnit(m) # 0 THEN Refused("INVALID_ARGUMENT", size)
    ELSE Refused("OK", size)

PlanScratch == 32       \* the local buffer a planned transfer is tried in

TransferPlan(status, size, clobbers, island, min, max) ==
    [status |-> status, size |-> size, clobbers |-> clobbers,
     island |-> island, min |-> min, max |-> max]

\* Mutants of PlanControlTransfer: the size of the bound in place of that of
\* the emission; every transfer tried as a jump.
PlanBoundSize(m, isCall, from, to, opts) ==
    LET emit  == EmitTransfer(m, isCall, from, to, opts, PlanScratch)
        bound == PlanJumpBack(m, ModeOf(opts))
    IN  TransferPlan(emit.status, bound.size, emit.clobbers, FALSE, 0, 0)

PlanAsJump(m, isCall, from, to, opts) ==
    LET emit == EmitTransfer(m, FALSE, from, to, opts, PlanScratch)
    IN  TransferPlan(emit.status, emit.size, emit.clobbers, FALSE, 0, 0)

PlanControlTransfer(m, isCall, from, to, opts) ==
    LET emit  == EmitTransfer(m, isCall, from, to, opts, PlanScratch)
        bound == PlanJumpBack(m, ModeOf(opts))
    IN  IF emit.status = "OK"
        THEN TransferPlan("OK", emit.size, emit.clobbers, FALSE, 0, 0)
        ELSE IF emit.status \notin {"BRANCH_OUT_OF_RANGE", "FORBIDDEN_CLOBBER"}
        THEN TransferPlan(emit.status, 0, {}, FALSE, 0, 0)
        ELSE IF bound.status # "OK"
        THEN TransferPlan(bound.status, 0, {}, FALSE, 0, 0)
        ELSE TransferPlan("OK", bound.size, bound.clobbers, TRUE, bound.min, bound.max)
=============================================================================
