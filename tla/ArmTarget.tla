----------------------------- MODULE ArmTarget ------------------------------
(***************************************************************************)
(* The ARM overlay (asmkit_arm_overlay.c), modes "a32" and "thumb", and    *)
(* the generated relative branch emitter it uses.                          *)
(***************************************************************************)
EXTENDS Asmkit

ArmAnalyze(inst) ==
    LET moved == inst.pcrel /\ inst.operand
    IN  [kind    |-> IF moved THEN "REENCODE"
                     ELSE IF inst.cls = "it" THEN "REJECT" ELSE "COPY",
         max     |-> IF moved THEN 12 ELSE inst.size,
         hazards |-> ControlHazards(inst)
                       \cup (IF inst.cls = "it" THEN {"ARM_IT"} ELSE {})
                       \cup (IF moved THEN {"PC_RELATIVE"} ELSE {})]

\* A32 reads the program counter two instructions ahead, Thumb one.
ArmEmitRel(m, isCall, from, to, cap) ==
    LET op   == IF isCall THEN "call" ELSE "jump"
        a32  == to - (from + 8)
        t16  == to - (from + 4)
    IN  IF m = "a32"
        THEN IF FitsWords24(a32) THEN Written(4, {}, {Item(op, 0, 4, a32, NoInst)}, cap)
             ELSE Refused("BRANCH_OUT_OF_RANGE", 4)
        ELSE IF isCall THEN Refused("BRANCH_OUT_OF_RANGE", 0)
        ELSE IF FitsThumb(t16) THEN Written(2, {}, {Item(op, 0, 2, t16, NoInst)}, cap)
        ELSE Refused("BRANCH_OUT_OF_RANGE", 2)

\* ldr pc, [pc, #-4] and its literal; for a call ldr ip, [pc, #4]; blx ip.
ArmEmitAbsA32(isCall, to, cap) ==
    IF isCall
    THEN Written(12, {"ip"}, {Item("load", 0, 4, 4, NoInst), Item("callReg", 4, 4, 0, NoInst),
                              Item("data", 8, 4, to, NoInst)}, cap)
    ELSE Written(8, {}, {Item("jumpMem", 0, 4, -4, NoInst), Item("data", 4, 4, to, NoInst)}, cap)

ArmEmit(m, isCall, from, to, bmode, cap) ==
    EmitAny(ArmEmitRel(m, isCall, from, to, cap), bmode,
            IF m = "a32" THEN ArmEmitAbsA32(isCall, to, cap)
            ELSE Refused("BRANCH_OUT_OF_RANGE", 0))

ArmMinPatch(m, from, to, bmode) ==
    [size     |-> IF m = "a32"
                  THEN IF bmode # "ABSOLUTE_ONLY" /\ FitsWords24(to - (from + 8)) THEN 4
                       ELSE IF bmode = "DIRECT_ONLY" THEN 0 ELSE 8
                  ELSE IF bmode # "ABSOLUTE_ONLY" /\ FitsThumb(to - (from + 4)) THEN 2 ELSE 0,
     clobbers |-> {}]

ArmPlanJumpBack(m, bmode) ==
    IF m = "a32"
    THEN IF bmode = "DIRECT_ONLY" THEN Bound("OK", 4, TRUE, -33554432, 33554428, {})
         ELSE Bound("OK", 8, FALSE, 0, 0, {})
    ELSE IF bmode = "ABSOLUTE_ONLY" THEN Bound("BRANCH_OUT_OF_RANGE", 0, FALSE, 0, 0, {})
    ELSE Bound("OK", 2, TRUE, -2048, 2046, {})

ArmRelocateBranch(m, inst, raddr, cap) ==
    LET isCall == inst.cls = "directCall"
        direct == ArmEmitRel(m, isCall, raddr, inst.target, cap)
    IN  IF direct.status \in Settled \/ m # "a32" THEN direct
        ELSE ArmEmitAbsA32(isCall, inst.target, cap)

ArmRelocate(m, inst, raddr, cap) ==
    IF inst.cls = "it" THEN Refused("UNSUPPORTED_RELOCATION", 0)
    ELSE IF inst.cls \in {"directBranch", "directCall"} THEN ArmRelocateBranch(m, inst, raddr, cap)
    ELSE IF inst.pcrel THEN Refused("UNSUPPORTED_RELOCATION", 0)
    ELSE Written(inst.size, {}, {Item("copy", 0, inst.size, 0, inst)}, cap)
=============================================================================
