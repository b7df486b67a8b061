---------------------------- MODULE ControlState ----------------------------
(***************************************************************************)
(* asmkit_analyze_inst_with_state: the decode state (mode and IT state) an *)
(* instruction is met in, the condition it is executed under, and the      *)
(* states its successors are to be decoded in.                             *)
(***************************************************************************)
EXTENDS TargetOps

Conditions == 0..15
Always     == 16            \* ASMKIT_EXECUTION_PREDICATE_ALWAYS

\* What is known of a place in the code before its instruction is decoded.
\* "default" stands for a mode that is not known.
DecodeStates == [mode: Modes \cup {"default"}, isa: {"none", "it"}, it: 0..255]

State(m)      == [mode |-> m, isa |-> "none", it |-> 0]
InBlock(m, v) == [mode |-> m, isa |-> IF v = 0 THEN "none" ELSE "it", it |-> v]

(***************************************************************************)
(* An instruction with what this analysis reads of it besides Inst:        *)
(* `switch' is the flag STATE_SWITCH, `cond' the bits it takes for a       *)
(* condition (A32: the top four; Thumb: the low half of the second byte),  *)
(* `first' and `mask' the operands of an IT, `reported' the absolute       *)
(* target in the operand the overlay looks at, with bit 0 set for Thumb    *)
(* code where the overlay sets it.  Not in the code: `tests' is the        *)
(* condition the processor tests when no IT block governs the instruction. *)
(***************************************************************************)
CtlInst == [inst: Inst, switch: BOOLEAN, cond: Conditions, first: Conditions,
            mask: 0..15, reported: Int, tests: Conditions \cup {Always}]

\* The branch facts of the overlays' analyses.
IsCall(m, i) ==
    i.inst.cls \in IF m \in VmModes THEN VmCalls(m) ELSE {"directCall", "indirectCall"}
IsBranch(m, i) ==
    i.inst.cls \in IF m \in VmModes THEN VmBranches(m)
                   ELSE {"directBranch", "condBranch", "indirectBranch"}
IsConditional(i) == i.inst.cls = "condBranch"
IsReturn(m, i)   == i.inst.cls = "return" /\ m \notin {"a32", "thumb"}
HasTarget(m, i) ==
    IF m \in VmModes THEN VmHasTarget(m, i.inst)
    ELSE /\ i.inst.pcrel /\ i.inst.operand
         /\ i.inst.cls \in {"directBranch", "condBranch", "directCall"}

\* Mutant of AdvanceIt: the low bits run over into the base condition.
AdvanceItUnmasked(v) == IF v % 8 = 0 THEN 0 ELSE 2 * v

\* The five low bits move up by one, the base condition stays.
AdvanceIt(v) == IF v % 8 = 0 THEN 0 ELSE ((v \div 32) * 32) + ((2 * v) % 32)

StartsIt(m, i) == m = "thumb" /\ i.inst.cls = "it" /\ i.inst.operand

\* Mutant of Predicate: the condition is taken after the state has advanced.
PredicateAfter(m, i, cur) ==
    LET encoded == IF i.cond < 14 THEN i.cond ELSE Always
    IN  IF m = "thumb" /\ cur.isa = "it" /\ cur.it # 0 /\ i.inst.cls # "it"
        THEN AdvanceIt(cur.it) \div 16
        ELSE IF (m = "thumb" /\ IsConditional(i)) \/ m = "a32" THEN encoded
        ELSE Always

Predicate(m, i, cur) ==
    LET encoded == IF i.cond < 14 THEN i.cond ELSE Always
    IN  IF m = "thumb" /\ cur.isa = "it" /\ cur.it # 0 /\ i.inst.cls # "it"
        THEN cur.it \div 16
        ELSE IF (m = "thumb" /\ IsConditional(i)) \/ m = "a32" THEN encoded
        ELSE Always

\* The state of the instruction that follows.
NextState(m, i, cur) ==
    IF StartsIt(m, i)
    THEN [cur EXCEPT !.isa = "it", !.it = ((16 * i.first) % 256) + i.mask]
    ELSE IF m = "thumb" /\ cur.isa = "it"
    THEN InBlock(cur.mode, AdvanceIt(cur.it))
    ELSE cur

\* Mutants of TargetState: the IT state goes along, the mode does not change.
TargetStateKept(m, i, next) ==
    IF m \in {"a32", "thumb"} /\ i.switch
    THEN [next EXCEPT !.mode = IF ~HasTarget(m, i) THEN "default"
                               ELSE IF i.reported % 2 = 1 THEN "thumb" ELSE "a32"]
    ELSE next
TargetStateStays(m, i, next) == next

\* The state of the instruction a transfer leads to.
TargetState(m, i, next) ==
    IF m \in {"a32", "thumb"} /\ i.switch
    THEN IF HasTarget(m, i)
         THEN State(IF i.reported % 2 = 1 THEN "thumb" ELSE "a32")
         ELSE [next EXCEPT !.mode = "default"]
    ELSE next

Successor(flow, state) == [flow |-> flow, state |-> state]

\* Mutant of Successors: the instruction behind a jump is a successor too.
SuccessorsAlways(m, i, next, target) ==
    {Successor("FALLTHROUGH", next)}
      \cup (IF IsCall(m, i) THEN {Successor("CALL", target)}
            ELSE IF IsBranch(m, i) THEN {Successor("BRANCH", target)} ELSE {})

\* At most two, in an array; their order says no more than their flow does.
Successors(m, i, next, target) ==
    IF IsCall(m, i)
    THEN {Successor("CALL", target)}
           \cup (IF i.inst.term THEN {} ELSE {Successor("FALLTHROUGH", next)})
    ELSE IF IsBranch(m, i)
    THEN {Successor("BRANCH", target)}
           \cup (IF IsConditional(i) THEN {Successor("FALLTHROUGH", next)} ELSE {})
    ELSE IF IsReturn(m, i) THEN {Successor("RETURN", next)}
    ELSE IF i.inst.term THEN {Successor("TRAP", next)}
    ELSE {Successor("FALLTHROUGH", next)}

NoAnalysis(status) == [status |-> status, predicate |-> Always, succs |-> {}]

\* `m' is the mode the instruction was decoded in, s the state passed.
AnalyzeWithState(m, i, s) ==
    LET cur  == [s EXCEPT !.mode = IF s.mode = "default" THEN m ELSE s.mode]
        next == NextState(m, i, cur)
    IN  IF cur.mode # m THEN NoAnalysis("UNSUPPORTED_MODE")
        ELSE IF cur.isa = "it" /\ m # "thumb" THEN NoAnalysis("INVALID_ARGUMENT")
        ELSE [status    |-> "OK",
              predicate |-> Predicate(m, i, cur),
              succs     |-> Successors(m, i, next, TargetState(m, i, next))]
=============================================================================
