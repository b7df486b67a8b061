------------------------------- MODULE Asmkit -------------------------------
(***************************************************************************)
(* The vocabulary every module of the project shares: what the decoder     *)
(* reports of an instruction (asmkit_inst_t), what an emitter returns      *)
(* (asmkit_emit_result_t) and the machine code it has written.             *)
(*                                                                         *)
(* Machine code is a set of items, one per instruction or literal written, *)
(* each at its offset from the start of the buffer the emitter was given.  *)
(* Bytes inside an item are abstracted: an item keeps the operation, its   *)
(* length, the displacement or literal it carries and the instruction it   *)
(* was copied from.                                                        *)
(*                                                                         *)
(* Addresses are integers.  The C code computes them modulo 2^64 and       *)
(* compares signed differences, which agrees with the integers as long as  *)
(* two addresses are less than 2^63 apart.                                 *)
(***************************************************************************)
EXTENDS Integers, Sequences, FiniteSets

CONSTANT I32Max         \* the largest signed 32-bit displacement, 2^31 - 1

ASSUME I32Assumption == I32Max \in Nat

X86Modes == {"x86_16", "x86_32", "x86_64"}
VmModes  == {"bpf64", "wasm32", "wasm64"}       \* the bytecode targets
Modes    == X86Modes \cup {"a32", "thumb", "a64"} \cup VmModes

BranchModes == {"AUTO", "DIRECT_ONLY", "ABSOLUTE_ONLY", "PREFER_DIRECT",
                "PREFER_CLOBBERLESS", "ALLOW_SCRATCH"}

\* The two registers an emitted sequence may destroy (the clobber masks).
Regs == {"ip", "x16"}

Statuses == {"OK", "DECODE_FAILED", "UNSUPPORTED_FEATURE", "OUTPUT_TOO_SMALL",
             "UNSUPPORTED_RELOCATION", "BRANCH_OUT_OF_RANGE",
             "FORBIDDEN_CLOBBER", "INVALID_ARGUMENT", "UNSUPPORTED_TARGET_OPERATION"}

MaxInstBytes == 16

(***************************************************************************)
(* Instructions.  `cls', `term', `pcrel', `reject' are the class and the   *)
(* flags TERMINATOR, PC_RELATIVE, UNSUPPORTED_RELOC the decoder gives;     *)
(* `operand' says that it recorded an operand holding the target, `enc'    *)
(* is what the relocators read from the instruction's own bytes, `target'  *)
(* is the absolute address the instruction refers to.  `does' is not in    *)
(* the code: it is what a processor does with the instruction.  The        *)
(* encoding "misread" is a RIP displacement the x86 relocator sees where   *)
(* the opcode or the ModRM byte is.                                        *)
(***************************************************************************)
Classes == {"plain", "directBranch", "condBranch", "directCall",
            "indirectBranch", "indirectCall", "return", "it", "landing", "pac",
            "pseudo", "structured"}

Encodings == {"jcc", "rip", "misread", "b", "bcond", "cbz", "tbz", "literal", "adr",
              "adrp", "other"}

Effects == {"plain", "ref", "jump", "cond", "call", "leave"}

Inst == [cls: Classes, size: 1..MaxInstBytes, term: BOOLEAN, pcrel: BOOLEAN,
         operand: BOOLEAN, reject: BOOLEAN, enc: Encodings, does: Effects,
         target: Int]

\* Stands for no instruction, in an item that is not made from one.
NoInst == [cls |-> "none", size |-> 0, term |-> FALSE, pcrel |-> FALSE,
           operand |-> FALSE, reject |-> FALSE, enc |-> "none", does |-> "none",
           target |-> 0]

BranchClasses == {"directBranch", "condBranch", "directCall",
                  "indirectBranch", "indirectCall"}

ControlHazards(inst) ==
    (IF inst.cls \in BranchClasses THEN {"BRANCH"} ELSE {})
        \cup (IF inst.cls \in {"directCall", "indirectCall"} THEN {"CALL"} ELSE {})

\* The hazard flags, without STATE_SWITCH, which repeats a decoder flag.
Hazards == {"BRANCH", "CALL", "RETURN", "PC_RELATIVE", "LANDING_PAD", "PAC",
            "ARM_IT", "UNSUPPORTED_RELOC", "STRUCTURED_CF"}

RelocKinds == {"COPY", "REENCODE", "REJECT"}

(***************************************************************************)
(* Emitted code.  The instruction in a "spoilt" item has lost its opcode.  *)
(***************************************************************************)
Ops == {"copy", "jump", "call", "cond", "skip", "ref", "load", "branchReg",
        "callReg", "jumpMem", "callMem", "data", "spoilt"}

Items == [op: Ops, at: Nat, len: Nat, disp: Int, inst: Inst \cup {NoInst}]

Item(op, at, len, disp, inst) ==
    [op |-> op, at |-> at, len |-> len, disp |-> disp, inst |-> inst]

EmitResults == [status: Statuses, size: Nat, clobbers: SUBSET Regs,
                code: SUBSET Items]

\* Mutant of Written: a short buffer is answered with its own size.
WrittenPartially(size, clobbers, code, cap) ==
    [status   |-> IF cap < size THEN "OUTPUT_TOO_SMALL" ELSE "OK",
     size     |-> IF cap < size THEN cap ELSE size,
     clobbers |-> clobbers,
     code     |-> IF cap < size THEN {} ELSE code]

\* How every emitter ends: the size and the clobbers are reported first, then
\* the capacity is compared and only then is anything written.
Written(size, clobbers, code, cap) ==
    [status   |-> IF cap < size THEN "OUTPUT_TOO_SMALL" ELSE "OK",
     size     |-> size,
     clobbers |-> clobbers,
     code     |-> IF cap < size THEN {} ELSE code]

\* An emission of nothing but a status and a size.
Refused(status, size) ==
    [status |-> status, size |-> size, clobbers |-> {}, code |-> {}]

\* The statuses after which no emitter tries another sequence.
Settled == {"OK", "OUTPUT_TOO_SMALL"}

FitsI16(d)    == -32768 <= d /\ d <= 32767
FitsI32(d)    == -I32Max - 1 <= d /\ d <= I32Max
FitsWords24(d) == d % 4 = 0 /\ -33554432 <= d /\ d <= 33554428
FitsWords26(d) == d % 4 = 0 /\ -134217728 <= d /\ d <= 134217724
FitsThumb(d)  == d % 2 = 0 /\ -2048 <= d /\ d <= 2046

(***************************************************************************)
(* The emit_jump/emit_call of each target tries its relative form and      *)
(* falls back to an absolute one, as the branch mode of the caller says.   *)
(***************************************************************************)
EmitAny(direct, bmode, otherwise) ==
    IF /\ bmode # "ABSOLUTE_ONLY"
       /\ direct.status \in Settled \/ bmode = "DIRECT_ONLY"
    THEN direct
    ELSE otherwise

\* What a target bounds a jump of a given mode by, before its address is known.
Bound(status, size, near, min, max, clobbers) ==
    [status |-> status, size |-> size, near |-> near, min |-> min, max |-> max,
     clobbers |-> clobbers]

Bounds == [status: Statuses, size: Nat, near: BOOLEAN, min: Int, max: Int,
           clobbers: SUBSET Regs]
=============================================================================
