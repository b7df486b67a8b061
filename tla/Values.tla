------------------------------- MODULE Values -------------------------------
(***************************************************************************)
(* asmkit_analyze_inst_values: what an instruction does to the values of   *)
(* registers and memory, as a list of effects on references to its         *)
(* operands, and the condition it defines or consumes.                     *)
(*                                                                         *)
(* An instruction is its mnemonic, its class and its operands; of the      *)
(* control analysis that is passed along, what is read here:               *)
(*    pcrel, target, material   semantics.pc_rel                           *)
(*    cond                      semantics.branch.is_conditional            *)
(*    predicate                 the ARM condition, or Always               *)
(***************************************************************************)
EXTENDS Integers, Sequences

Always == 16            \* ASMKIT_EXECUTION_PREDICATE_ALWAYS

MaxValueEffects == 8

NoReg == [fam |-> "none", width |-> 0]

\* A value reference.
Ref(kind, index, width, reg, imm) ==
    [kind |-> kind, index |-> index, width |-> width, reg |-> reg, imm |-> imm]

NoRef               == Ref("none", 0, 0, NoReg, 0)
Immediate(value, w) == Ref("immediate", 0, w, NoReg, value)
Temporary(n, w)     == Ref("temporary", n, w, NoReg, 0)
ControlTarget(w)    == Ref("target", 0, w, NoReg, 0)

\* Mutant of Operand: a register is referred to as a whole, whatever its name.
OperandWhole(inst, n) ==
    IF n \notin 0..(Len(inst.ops) - 1) THEN NoRef
    ELSE LET o == inst.ops[n + 1]
         IN  Ref("operand", n, IF o.kind = "reg" THEN 64 ELSE o.width,
                 IF o.kind = "reg" THEN o.reg ELSE NoReg,
                 IF o.kind \in {"imm", "pcrel"} THEN o.imm ELSE 0)

\* The reference to operand n, counted from 0; none if there is none.
Operand(inst, n) ==
    IF n \notin 0..(Len(inst.ops) - 1) THEN NoRef
    ELSE LET o == inst.ops[n + 1]
         IN  Ref("operand", n, o.width, IF o.kind = "reg" THEN o.reg ELSE NoReg,
                 IF o.kind \in {"imm", "pcrel"} THEN o.imm ELSE 0)

Effect(kind, dst, srcs) == [kind |-> kind, dst |-> dst, srcs |-> srcs]

-----------------------------------------------------------------------------
(***************************************************************************)
(* The operands that matter: indices from 0, or -1.                        *)
(***************************************************************************)
FirstOf(indices) == IF indices = {} THEN -1
                    ELSE CHOOSE n \in indices : \A k \in indices : n <= k

Indices(inst) == 0..(Len(inst.ops) - 1)

MemoryOperand(inst) == FirstOf({n \in Indices(inst) : inst.ops[n + 1].kind = "mem"})

\* Without an operand that is written, the first.
DestinationOperand(inst) ==
    LET written == {n \in Indices(inst) : "write" \in inst.ops[n + 1].flags}
    IN  FirstOf(IF written = {} THEN Indices(inst) \cap {0} ELSE written)

\* Mutant of SourceOperand: the destination of an instruction that also reads
\* it is taken for its source.
SourceOperandRead(inst, dst, mem) ==
    FirstOf({n \in Indices(inst) : "read" \in inst.ops[n + 1].flags})

SourceOperand(inst, dst, mem) ==
    FirstOf({n \in Indices(inst) \ {dst, mem} :
                "read" \in inst.ops[n + 1].flags \/ n # 0})

-----------------------------------------------------------------------------
(***************************************************************************)
(* Effects that several targets share.                                     *)
(***************************************************************************)
MemoryEffects(inst) ==
    LET dst == DestinationOperand(inst)
        mem == MemoryOperand(inst)
        src == SourceOperand(inst, mem, -1)
    IN  IF mem < 0 THEN <<>>
        ELSE IF inst.cls = "store" \/ dst = mem
        THEN <<Effect("STORE", Operand(inst, mem),
                      IF src >= 0 THEN <<Operand(inst, src)>> ELSE <<>>)>>
        ELSE <<Effect("LOAD", Operand(inst, dst), <<Operand(inst, mem)>>)>>

\* Without a source the effect stays empty.
CopyEffect(inst) ==
    LET dst == DestinationOperand(inst)
        src == SourceOperand(inst, dst, -1)
    IN  IF dst >= 0 /\ src >= 0
        THEN <<Effect("COPY", Operand(inst, dst), <<Operand(inst, src)>>)>>
        ELSE <<Effect("COPY", NoRef, <<>>)>>

ExtendEffect(inst, kind) ==
    LET dst == DestinationOperand(inst)
    IN  IF dst >= 0 THEN <<Effect(kind, Operand(inst, dst), <<Operand(inst, dst)>>)>>
        ELSE <<Effect(kind, NoRef, <<>>)>>

AddressEffect(inst, source) ==
    <<Effect("ADDRESS", Operand(inst, DestinationOperand(inst)), <<source>>)>>

\* Mutant of BinaryEffect: an instruction that works on its destination is missed.
BinaryEffectThree(inst, kind) ==
    IF Len(inst.ops) < 3 THEN <<>>
    ELSE <<Effect(kind, Operand(inst, DestinationOperand(inst)),
                  <<Operand(inst, 1), Operand(inst, 2)>>)>>

BinaryEffect(inst, kind) ==
    LET dst == DestinationOperand(inst)
    IN  IF Len(inst.ops) < 2 THEN <<>>
        ELSE <<Effect(kind, Operand(inst, dst),
                      IF Len(inst.ops) >= 3 THEN <<Operand(inst, 1), Operand(inst, 2)>>
                      ELSE <<Operand(inst, dst), Operand(inst, IF dst = 0 THEN 1 ELSE 0)>>)>>

CompareEffect(inst) ==
    IF Len(inst.ops) < 2 THEN <<>>
    ELSE <<Effect("COMPARE", NoRef, <<Operand(inst, 0), Operand(inst, 1)>>)>>

NoCondition == [defines |-> FALSE, consumes |-> FALSE, state |-> "none",
                relation |-> "none", left |-> NoRef, right |-> NoRef]

Defined(state) == [NoCondition EXCEPT !.defines = TRUE, !.state = state]

Comparison(inst, state) ==
    IF Len(inst.ops) < 2 THEN NoCondition
    ELSE [Defined(state) EXCEPT !.left = Operand(inst, 0), !.right = Operand(inst, 1)]

\* The condition of a branch that compares its first operand with zero.
AgainstZero(inst, state, relation) ==
    [Defined(state) EXCEPT !.consumes = TRUE, !.relation = relation,
        !.left = Operand(inst, 0), !.right = Immediate(0, inst.ops[1].width)]

Consumed(condition, state, relation) ==
    [condition EXCEPT !.consumes = TRUE, !.state = state, !.relation = relation]

-----------------------------------------------------------------------------
(***************************************************************************)
(* x86.                                                                    *)
(***************************************************************************)
X86Binary == [add |-> "ADD", sub |-> "SUB", imul |-> "MUL", shl |-> "SHIFT_LEFT",
              and |-> "AND", or |-> "OR", xor |-> "XOR", shr |-> "SHIFT_RIGHT_LOGICAL",
              sar |-> "SHIFT_RIGHT_ARITHMETIC", rol |-> "ROTATE_LEFT", ror |-> "ROTATE_RIGHT"]

X86Taken == [ja |-> "UGT", jae |-> "UGE", jb |-> "ULT", jbe |-> "ULE", je |-> "EQ",
             jne |-> "NE", jg |-> "SGT", jge |-> "SGE", jl |-> "SLT", jle |-> "SLE"]

X86Extension == [movsx |-> "SIGN_EXTEND", movsxd |-> "SIGN_EXTEND", movzx |-> "ZERO_EXTEND"]

X86Effects(inst, control, accesses) ==
    LET mn    == inst.mn
        mem   == MemoryOperand(inst)
        dst   == DestinationOperand(inst)
        moves == IF mn \in {"mov", "movsx", "movsxd", "movzx"} /\ accesses = <<>>
                 THEN MemoryEffects(inst) ELSE accesses
        named ==
            CASE mn = "lea" /\ dst >= 0 ->
                    AddressEffect(inst, IF control.pcrel THEN Immediate(control.target, 64)
                                        ELSE Operand(inst, mem))
              [] mn = "mov" /\ mem < 0 /\ dst >= 0 -> CopyEffect(inst)
              [] mn \in DOMAIN X86Extension ->
                    (IF mem < 0 THEN CopyEffect(inst) ELSE <<>>)
                      \o ExtendEffect(inst, X86Extension[mn])
              [] mn \in DOMAIN X86Binary -> BinaryEffect(inst, X86Binary[mn])
              [] OTHER -> <<>>
        compares == IF mn \in {"cmp", "test", "sub"} THEN CompareEffect(inst) ELSE <<>>
    IN  moves \o named \o compares

\* Mutant of X86Condition: an instruction whose flags are not a comparison
\* leaves the condition alone.
X86ConditionKept(inst) ==
    LET defined == IF inst.mn \in {"cmp", "test", "sub"} THEN Comparison(inst, "x86")
                   ELSE NoCondition
    IN  IF inst.mn \in DOMAIN X86Taken THEN Consumed(defined, "x86", X86Taken[inst.mn])
        ELSE defined

X86Condition(inst) ==
    LET defined == IF inst.mn \in {"cmp", "test", "sub"} THEN Comparison(inst, "x86")
                   ELSE IF inst.mn \in (DOMAIN X86Binary) \cup {"inc", "dec"} THEN Defined("x86")
                   ELSE NoCondition
    IN  IF inst.mn \in DOMAIN X86Taken THEN Consumed(defined, "x86", X86Taken[inst.mn])
        ELSE defined

-----------------------------------------------------------------------------
(***************************************************************************)
(* ARM.                                                                    *)
(***************************************************************************)
ArmBinary == [add |-> "ADD", addw |-> "ADD", sub |-> "SUB", subw |-> "SUB",
              lsl |-> "SHIFT_LEFT", and |-> "AND", orr |-> "OR", eor |-> "XOR",
              lsr |-> "SHIFT_RIGHT_LOGICAL", asr |-> "SHIFT_RIGHT_ARITHMETIC",
              ror |-> "ROTATE_RIGHT"]

ArmTaken(condition) ==
    CASE condition = 0 -> "EQ"   [] condition = 1 -> "NE"   [] condition = 2 -> "UGE"
      [] condition = 3 -> "ULT"  [] condition = 8 -> "UGT"  [] condition = 9 -> "ULE"
      [] condition = 10 -> "SGE" [] condition = 11 -> "SLT" [] condition = 12 -> "SGT"
      [] condition = 13 -> "SLE" [] OTHER -> "none"

\* The table branches: the entry is loaded, widened, doubled and added to the
\* program counter, which is taken at a word boundary and marked as Thumb.
TableEffects(inst) ==
    LET w  == IF inst.mn = "tbb" THEN 8 ELSE 16
        at == inst.addr + 4
        pc == at - (at % 4) + 1
    IN  <<Effect("LOAD", Temporary(0, w), <<Operand(inst, MemoryOperand(inst))>>),
          Effect("ZERO_EXTEND", Temporary(1, 32), <<Temporary(0, w)>>),
          Effect("MUL", Temporary(2, 32), <<Temporary(1, 32), Immediate(2, 32)>>),
          Effect("ADD", ControlTarget(32), <<Immediate(pc, 32), Temporary(2, 32)>>)>>

ArmEffects(inst, control) ==
    LET mn    == inst.mn
        table == mn \in {"tbb", "tbh"} /\ MemoryOperand(inst) >= 0
        names == (mn = "adr" \/ control.material) /\ DestinationOperand(inst) >= 0
        named ==
            CASE table -> TableEffects(inst)
              [] ~table /\ names -> AddressEffect(inst, Immediate(control.target, 32))
              [] ~names /\ mn \in {"mov", "movs"} -> CopyEffect(inst)
              [] ~names /\ mn \in DOMAIN ArmBinary -> BinaryEffect(inst, ArmBinary[mn])
              [] OTHER -> <<>>
    IN  named \o (IF mn = "cmp" THEN CompareEffect(inst) ELSE <<>>)

ArmCondition(inst, control) ==
    LET defined == IF inst.mn = "cmp" THEN Comparison(inst, "arm") ELSE NoCondition
    IN  CASE inst.mn = "cbz"  -> AgainstZero(inst, "arm", "EQ")
          [] inst.mn = "cbnz" -> AgainstZero(inst, "arm", "NE")
          [] OTHER -> IF control.cond /\ control.predicate # Always
                      THEN Consumed(defined, "arm", ArmTaken(control.predicate))
                      ELSE defined

-----------------------------------------------------------------------------
(***************************************************************************)
(* AArch64 and BPF.                                                        *)
(***************************************************************************)
A64Binary == [add |-> "ADD", sub |-> "SUB", lsl |-> "SHIFT_LEFT", and |-> "AND",
              orr |-> "OR", eor |-> "XOR", lsr |-> "SHIFT_RIGHT_LOGICAL",
              asr |-> "SHIFT_RIGHT_ARITHMETIC", ror |-> "ROTATE_RIGHT"]

A64Effects(inst, control) ==
    LET mn    == inst.mn
        dst   == DestinationOperand(inst)
        names == (mn \in {"adr", "adrp"} \/ control.material) /\ dst >= 0
        named ==
            CASE names -> AddressEffect(inst, Immediate(control.target, 64))
              [] ~names /\ mn \in {"mov", "movz", "movn"} -> CopyEffect(inst)
              [] ~names /\ mn \in DOMAIN A64Binary -> BinaryEffect(inst, A64Binary[mn])
              [] OTHER -> <<>>
    IN  named \o (IF mn \in {"ldrsw", "ldrsh", "ldrsb"}
                  THEN ExtendEffect(inst, "SIGN_EXTEND") ELSE <<>>)

A64Condition(inst) ==
    CASE inst.mn \in {"cbz", "tbz"}   -> AgainstZero(inst, "aarch64", "EQ")
      [] inst.mn \in {"cbnz", "tbnz"} -> AgainstZero(inst, "aarch64", "NE")
      [] OTHER -> NoCondition

BpfBinary == [add |-> "ADD", sub |-> "SUB", mul |-> "MUL", sll |-> "SHIFT_LEFT",
              and |-> "AND", or |-> "OR", xor |-> "XOR", srl |-> "SHIFT_RIGHT_LOGICAL",
              arsh |-> "SHIFT_RIGHT_ARITHMETIC"]

BpfEffects(inst) ==
    IF inst.mn = "mov" THEN CopyEffect(inst)
    ELSE IF inst.mn \in DOMAIN BpfBinary THEN BinaryEffect(inst, BpfBinary[inst.mn])
    ELSE <<>>

-----------------------------------------------------------------------------
\* An effect that no longer fits is left out.
Capped(effects) ==
    SubSeq(effects, 1, IF Len(effects) > MaxValueEffects THEN MaxValueEffects ELSE Len(effects))

Analysis(status, effects, condition) ==
    [status |-> status, effects |-> Capped(effects), condition |-> condition]

\* `engine' is the architecture and mode of the engine asked.
AnalyzeValues(engine, inst, control) ==
    LET accesses == IF inst.cls \in {"load", "store"} THEN MemoryEffects(inst) ELSE <<>>
    IN  IF engine.arch # inst.arch \/ engine.mode # inst.mode
        THEN Analysis("UNSUPPORTED_MODE", <<>>, NoCondition)
        ELSE CASE inst.arch = "x86" ->
                    Analysis("OK", X86Effects(inst, control, accesses), X86Condition(inst))
               [] inst.arch = "arm" ->
                    Analysis("OK", accesses \o ArmEffects(inst, control),
                             ArmCondition(inst, control))
               [] inst.arch = "aarch64" ->
                    Analysis("OK", accesses \o A64Effects(inst, control), A64Condition(inst))
               [] inst.arch = "bpf" ->
                    Analysis("OK", accesses \o BpfEffects(inst), NoCondition)
               [] OTHER -> Analysis("UNSUPPORTED_ARCH", accesses, NoCondition)
=============================================================================
