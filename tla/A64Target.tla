----------------------------- MODULE A64Target ------------------------------
(***************************************************************************)
(* The AArch64 overlay (asmkit_aarch64_overlay.c) and the generated        *)
(* relative branch emitter it uses.                                        *)
(***************************************************************************)
EXTENDS Asmkit

PageSize == 4096

PageOf(addr) == addr - (addr % PageSize)

A64Analyze(inst) ==
    LET moved == inst.pcrel /\ inst.operand
    IN  [kind    |-> IF moved THEN "REENCODE" ELSE "COPY",
         max     |-> IF moved /\ inst.cls = "condBranch" THEN 20
                     ELSE IF moved /\ inst.cls \in {"directBranch", "directCall"} THEN 16
                     ELSE inst.size,
         hazards |-> ControlHazards(inst)
                       \cup (IF inst.cls = "landing" THEN {"LANDING_PAD"} ELSE {})
                       \cup (IF inst.cls = "pac" THEN {"PAC"} ELSE {})
                       \cup (IF inst.cls = "return" THEN {"RETURN"} ELSE {})
                       \cup (IF moved THEN {"PC_RELATIVE"} ELSE {})]

A64EmitRel(isCall, from, to, cap) ==
    IF FitsWords26(to - from)
    THEN Written(4, {}, {Item(IF isCall THEN "call" ELSE "jump", 0, 4, to - from, NoInst)}, cap)
    ELSE Refused("BRANCH_OUT_OF_RANGE", 4)

\* ldr x16, #8; br/blr x16; the literal -- placed at offset `at'.
A64AbsCode(isCall, to, at) ==
    {Item("load", at, 4, 8, NoInst),
     Item(IF isCall THEN "callReg" ELSE "branchReg", at + 4, 4, 0, NoInst),
     Item("data", at + 8, 8, to, NoInst)}

A64EmitAbs(isCall, to, cap) == Written(16, {"x16"}, A64AbsCode(isCall, to, 0), cap)

\* `allowed' is the caller's clobber set; `opts' is FALSE when it passed none.
A64Emit(isCall, from, to, bmode, opts, allowed, cap) ==
    EmitAny(A64EmitRel(isCall, from, to, cap), bmode,
            IF \/ bmode = "PREFER_CLOBBERLESS"
               \/ opts /\ bmode = "ALLOW_SCRATCH" /\ "x16" \notin allowed
            THEN Refused("FORBIDDEN_CLOBBER", 4)
            ELSE A64EmitAbs(isCall, to, cap))

A64MinPatch(from, to, bmode) ==
    IF bmode # "ABSOLUTE_ONLY" /\ FitsWords26(to - from)
    THEN [size |-> 4, clobbers |-> {}]
    ELSE IF bmode \in {"DIRECT_ONLY", "PREFER_CLOBBERLESS"}
    THEN [size |-> 0, clobbers |-> {}]
    ELSE [size |-> 16, clobbers |-> {"x16"}]

\* Mutants of A64PlanJumpBack: the first word out of reach is counted in; a
\* near island is reported as a failure.
A64PlanJumpBackOneMore(bmode) ==
    IF bmode \in {"DIRECT_ONLY", "PREFER_CLOBBERLESS"}
    THEN Bound("OK", 4, TRUE, -134217728, 134217728, {})
    ELSE Bound("OK", 16, FALSE, 0, 0, {"x16"})

A64PlanJumpBackFails(bmode) ==
    IF bmode \in {"DIRECT_ONLY", "PREFER_CLOBBERLESS"}
    THEN Bound("REQUIRES_BRANCH_ISLAND", 0, TRUE, 0, 0, {})
    ELSE Bound("OK", 16, FALSE, 0, 0, {"x16"})

A64PlanJumpBack(bmode) ==
    IF bmode \in {"DIRECT_ONLY", "PREFER_CLOBBERLESS"}
    THEN Bound("OK", 4, TRUE, -134217728, 134217724, {})
    ELSE Bound("OK", 16, FALSE, 0, 0, {"x16"})

\* The range of the immediate field, in bytes (in pages for adrp).
A64Range(inst) ==
    IF inst.enc \in {"bcond", "cbz", "literal"} THEN [min |-> -1048576, max |-> 1048572]
    ELSE IF inst.enc = "tbz" THEN [min |-> -32768, max |-> 32764]
    ELSE IF inst.enc \in {"adr", "adrp"} THEN [min |-> -1048576, max |-> 1048575]
    ELSE [min |-> -134217728, max |-> 134217724]

A64Conditionals == {"bcond", "cbz", "tbz"}

\* What the rewritten immediate field holds: words for branches and literals
\* (the two low bits of the displacement are dropped), bytes or pages for adr(p).
A64Field(inst, disp) ==
    IF inst.enc \in A64Conditionals \cup {"literal"} THEN 4 * (disp \div 4) ELSE disp

\* Mutant of A64ExpandCond: the hop lands on the literal.
A64ExpandCondShort(inst, to, cap) ==
    Written(20, {"x16"}, {Item("skip", 0, 4, 12, inst)} \cup A64AbsCode(FALSE, to, 4), cap)

\* The inverted condition hops over an absolute branch.
A64ExpandCond(inst, to, cap) ==
    Written(20, {"x16"}, {Item("skip", 0, 4, 20, inst)} \cup A64AbsCode(FALSE, to, 4), cap)

A64RelocateBranch(inst, raddr, cap) ==
    LET isCall == inst.cls = "directCall"
        direct == A64EmitRel(isCall, raddr, inst.target, cap)
    IN  IF ~inst.operand THEN Refused("UNSUPPORTED_RELOCATION", 0)
        ELSE IF direct.status \in Settled THEN direct
        ELSE A64EmitAbs(isCall, inst.target, cap)

A64RelocateField(inst, raddr, cap) ==
    LET disp == IF inst.enc = "adrp"
                THEN (PageOf(inst.target) - PageOf(raddr)) \div PageSize
                ELSE inst.target - raddr
        conditional == inst.cls = "condBranch" /\ inst.enc \in A64Conditionals
        op   == IF inst.enc \in A64Conditionals THEN "cond" ELSE "ref"
    IN  IF disp < A64Range(inst).min \/ disp > A64Range(inst).max
        THEN IF conditional THEN A64ExpandCond(inst, inst.target, cap)
             ELSE Refused("BRANCH_OUT_OF_RANGE", 0)
        ELSE IF cap < 4 THEN Refused("OUTPUT_TOO_SMALL", 4)
        ELSE IF inst.enc \notin A64Conditionals \cup {"literal", "adr", "adrp"}
        THEN Refused("UNSUPPORTED_RELOCATION", 4)
        ELSE Written(4, {}, {Item(op, 0, 4, A64Field(inst, disp), inst)}, cap)

A64Relocate(inst, raddr, cap) ==
    IF inst.pcrel /\ inst.enc = "b" THEN A64RelocateBranch(inst, raddr, cap)
    ELSE IF inst.pcrel /\ inst.operand THEN A64RelocateField(inst, raddr, cap)
    ELSE Written(inst.size, {}, {Item("copy", 0, inst.size, 0, inst)}, cap)
=============================================================================
