----------------------------- MODULE X86Target ------------------------------
(***************************************************************************)
(* The x86 overlay (asmkit_x86_overlay.c) and the relative branch emitter  *)
(* it shares with the generated encoder.  `m' is the engine's mode.        *)
(***************************************************************************)
EXTENDS Asmkit

X86DirectSize(m) == IF m = "x86_16" THEN 3 ELSE 5

X86Fits(m, d) == IF m = "x86_16" THEN FitsI16(d) ELSE FitsI32(d)

\* Mutant of X86Analyze: the inverted condition is not counted.
X86AnalyzeShort(inst) ==
    [kind    |-> IF inst.pcrel /\ inst.operand THEN "REENCODE" ELSE "COPY",
     max     |-> IF inst.pcrel /\ inst.operand THEN 14 ELSE inst.size,
     hazards |-> ControlHazards(inst)]

X86Analyze(inst) ==
    LET moved == inst.pcrel /\ inst.operand
    IN  [kind    |-> IF moved THEN "REENCODE"
                     ELSE IF inst.reject THEN "REJECT" ELSE "COPY",
         max     |-> IF ~moved THEN inst.size
                     ELSE IF inst.cls = "condBranch" THEN 16 ELSE 14,
         hazards |-> ControlHazards(inst)
                       \cup (IF inst.cls = "landing" THEN {"LANDING_PAD"} ELSE {})
                       \cup (IF inst.cls = "return" THEN {"RETURN"} ELSE {})
                       \cup (IF inst.reject THEN {"UNSUPPORTED_RELOC"} ELSE {})
                       \cup (IF moved THEN {"PC_RELATIVE"} ELSE {})]

X86EmitRel(m, isCall, from, to, cap) ==
    LET n    == X86DirectSize(m)
        disp == to - (from + n)
    IN  IF X86Fits(m, disp)
        THEN Written(n, {}, {Item(IF isCall THEN "call" ELSE "jump", 0, n, disp, NoInst)}, cap)
        ELSE Refused("BRANCH_OUT_OF_RANGE", 0)

\* jmp/call through the quadword that follows, placed at offset `at'.
X86AbsCode(isCall, to, at) ==
    {Item(IF isCall THEN "callMem" ELSE "jumpMem", at, 6, 0, NoInst),
     Item("data", at + 6, 8, to, NoInst)}

X86EmitAbs(isCall, to, cap) == Written(14, {}, X86AbsCode(isCall, to, 0), cap)

X86Emit(m, isCall, from, to, bmode, cap) ==
    EmitAny(X86EmitRel(m, isCall, from, to, cap), bmode,
            IF m # "x86_64" THEN Refused("BRANCH_OUT_OF_RANGE", 0)
            ELSE X86EmitAbs(isCall, to, cap))

\* Mutant of X86MinPatch: assumes that the relative form reaches.
X86MinPatchNear(m, from, to, bmode) ==
    [size |-> IF bmode # "ABSOLUTE_ONLY" THEN X86DirectSize(m) ELSE 14, clobbers |-> {}]

X86MinPatch(m, from, to, bmode) ==
    LET n == X86DirectSize(m)
    IN  [size     |-> IF bmode # "ABSOLUTE_ONLY" /\ X86Fits(m, to - (from + n)) THEN n
                      ELSE IF bmode = "DIRECT_ONLY" \/ m # "x86_64" THEN 0 ELSE 14,
         clobbers |-> {}]

\* Mutant of X86PlanJumpBack: the 32-bit distances in every mode.
X86PlanJumpBackWide(m, bmode) ==
    IF bmode # "DIRECT_ONLY" /\ m = "x86_64"
    THEN Bound("OK", 14, FALSE, 0, 0, {})
    ELSE IF bmode = "ABSOLUTE_ONLY"
    THEN Bound("BRANCH_OUT_OF_RANGE", 0, FALSE, 0, 0, {})
    ELSE Bound("OK", X86DirectSize(m), TRUE, -I32Max - 1, I32Max, {})

X86PlanJumpBack(m, bmode) ==
    IF bmode # "DIRECT_ONLY" /\ m = "x86_64"
    THEN Bound("OK", 14, FALSE, 0, 0, {})
    ELSE IF bmode = "ABSOLUTE_ONLY"
    THEN Bound("BRANCH_OUT_OF_RANGE", 0, FALSE, 0, 0, {})
    ELSE IF m = "x86_16"
    THEN Bound("OK", 3, TRUE, -32768, 32767, {})
    ELSE Bound("OK", 5, TRUE, -I32Max - 1, I32Max, {})

X86EmitJcc(inst, from, to, cap) ==
    LET disp == to - (from + 6)
    IN  IF FitsI32(disp) THEN Written(6, {}, {Item("cond", 0, 6, disp, inst)}, cap)
        ELSE Refused("BRANCH_OUT_OF_RANGE", 6)

\* Mutant of X86ExpandJcc: the hop is two bytes short.
X86ExpandJccShort(inst, to, cap) ==
    Written(16, {}, {Item("skip", 0, 2, 12, inst)} \cup X86AbsCode(FALSE, to, 2), cap)

\* The inverted condition hops over an absolute jump.
X86ExpandJcc(inst, to, cap) ==
    Written(16, {}, {Item("skip", 0, 2, 14, inst)} \cup X86AbsCode(FALSE, to, 2), cap)

X86RelocateBranch(m, inst, raddr, cap) ==
    LET isCall == inst.cls = "directCall"
        direct == X86EmitRel(m, isCall, raddr, inst.target, cap)
    IN  IF ~inst.operand THEN Refused("UNSUPPORTED_RELOCATION", 0)
        ELSE IF direct.status \in Settled \/ m # "x86_64" THEN direct
        ELSE X86EmitAbs(isCall, inst.target, cap)

X86RelocateCond(m, inst, raddr, cap) ==
    LET direct == X86EmitJcc(inst, raddr, inst.target, cap)
    IN  IF ~inst.operand \/ inst.enc # "jcc" THEN Refused("UNSUPPORTED_RELOCATION", 0)
        ELSE IF direct.status \in Settled \/ m # "x86_64" THEN direct
        ELSE X86ExpandJcc(inst, inst.target, cap)

\* Mutant of X86RelocateRip: relative to the start of the instruction.
X86RelocateRipFromStart(inst, raddr, cap) ==
    LET disp == inst.target - raddr
    IN  IF ~FitsI32(disp) THEN Refused("BRANCH_OUT_OF_RANGE", 0)
        ELSE Written(inst.size, {}, {Item("ref", 0, inst.size, disp, inst)}, cap)

\* What comes of the displacement found.  x86_find_rip_disp takes the byte after
\* the first or the second opcode byte for a ModRM byte.  After a VEX prefix or
\* in a three-byte opcode it is not: most such instructions are refused, but some
\* bytes look like one, and the displacement is written over what they stand for.
RipOp(inst) == IF inst.enc = "misread" THEN "spoilt" ELSE "ref"

X86RelocateRip(inst, raddr, cap) ==
    LET disp == inst.target - (raddr + inst.size)
    IN  IF inst.enc \notin {"rip", "misread"} THEN Refused("UNSUPPORTED_RELOCATION", 0)
        ELSE IF ~FitsI32(disp) THEN Refused("BRANCH_OUT_OF_RANGE", 0)
        ELSE Written(inst.size, {}, {Item(RipOp(inst), 0, inst.size, disp, inst)}, cap)

X86Relocate(m, inst, raddr, cap) ==
    IF inst.cls \in {"directCall", "directBranch"} THEN X86RelocateBranch(m, inst, raddr, cap)
    ELSE IF inst.cls = "condBranch" THEN X86RelocateCond(m, inst, raddr, cap)
    ELSE IF inst.pcrel /\ inst.operand THEN X86RelocateRip(inst, raddr, cap)
    ELSE Written(inst.size, {}, {Item("copy", 0, inst.size, 0, inst)}, cap)
=============================================================================
