---------------------------- MODULE BlockDecode -----------------------------
(***************************************************************************)
(* asmkit_decode_block_until: decode instructions one after the other      *)
(* until `need' bytes are covered.  The bytes under the decoder are        *)
(* represented by what asmkit_decode_one makes of them: the instructions   *)
(* `code', after which it fails with the status `tail'.  The C code also   *)
(* guards against an instruction of size 0 or one longer than the bytes    *)
(* left, which no decoder front-end reports with ASMKIT_OK.                *)
(***************************************************************************)
EXTENDS TargetOps

CONSTANTS
    Origin,         \* the address of the first byte
    MaxBlock,       \* ASMKIT_MAX_BLOCK_INSTRUCTIONS
    Programs,       \* the codes considered: [mode, code, tail]
    Needs           \* the minimum sizes callers ask for

DecodeFailures == {"DECODE_FAILED", "UNSUPPORTED_FEATURE"}

ASSUME BlockAssumption ==
    /\ Origin \in Int
    /\ MaxBlock \in Nat \ {0}
    /\ Programs \subseteq [mode: Modes, code: Seq(Inst), tail: DecodeFailures]
    /\ Needs \subseteq Nat

\* What the decoders guarantee of the instructions they report, beyond their
\* type: the sizes of the instruction sets of fixed length; that a PC-relative
\* instruction and an ARM branch have an operand; that the AArch64 branches with
\* a 26-bit field are B and BL; and that the field of an AArch64 branch or
\* literal counts words from the instruction, that of ADRP pages.
Decodable(m, inst) ==
    /\ m \in {"a32", "a64"} => inst.size = 4
    /\ m = "thumb" => inst.size \in {2, 4}
    /\ m \in X86Modes \cup {"a64"} /\ inst.pcrel => inst.operand
    /\ m \in {"a32", "thumb"} /\ inst.cls \in {"directBranch", "directCall"} =>
          inst.operand
    /\ m = "a64" /\ inst.enc = "b" => inst.cls \in {"directBranch", "directCall"}
    /\ m = "a64" /\ inst.enc \in A64Conditionals \cup {"literal"} =>
          (inst.target - Origin) % 4 = 0
    /\ m = "a64" /\ inst.enc = "adrp" => inst.target % PageSize = 0

ASSUME DecoderAssumption ==
    \A p \in Programs : \A k \in 1..Len(p.code) : Decodable(p.mode, p.code[k])

VARIABLES
    mode,           \* the engine's mode, never changed after its creation
    code, tail,
    need, room,     \* min_size and out_inst_capacity
    insts,          \* out_insts so far: each instruction with its address
    total,          \* bytes decoded
    dstatus         \* "RUNNING", then the status returned

inputVars  == <<mode, code, tail>>
decodeVars == <<mode, code, tail, need, room, insts, total, dstatus>>

Decoded == [address: Int, inst: Inst]

DecodeTypeOK ==
    /\ mode \in Modes
    /\ code \in Seq(Inst)
    /\ tail \in DecodeFailures
    /\ need \in Nat
    /\ room \in Nat \ {0}
    /\ insts \in Seq(Decoded)
    /\ total \in Nat
    /\ dstatus \in {"RUNNING", "OK", "OUTPUT_TOO_SMALL"} \cup DecodeFailures

DecodeInit ==
    /\ \E p \in Programs : mode = p.mode /\ code = p.code /\ tail = p.tail
    /\ insts = <<>>
    /\ total = 0
    /\ dstatus = "RUNNING"

BlockInit ==
    /\ DecodeInit
    /\ need \in Needs
    /\ room \in 1..MaxBlock

\* Mutant of Wanting: one instruction too many when the size is met exactly.
WantingMore == total <= need /\ Len(insts) < room /\ Len(insts) < MaxBlock

\* The condition of the loop.
Wanting == total < need /\ Len(insts) < room /\ Len(insts) < MaxBlock

\* Mutants of DecodeOne: the size counted down; every instruction at the first
\* address.
DecodeOneBackwards ==
    /\ dstatus = "RUNNING" /\ Wanting /\ Len(insts) < Len(code)
    /\ insts' = Append(insts, [address |-> Origin + total, inst |-> code[Len(insts) + 1]])
    /\ total' = total - code[Len(insts) + 1].size
    /\ UNCHANGED <<mode, code, tail, need, room, dstatus>>

DecodeOneInPlace ==
    /\ dstatus = "RUNNING" /\ Wanting /\ Len(insts) < Len(code)
    /\ LET inst == code[Len(insts) + 1]
       IN  /\ insts' = Append(insts, [address |-> Origin, inst |-> inst])
           /\ total' = total + inst.size
           /\ dstatus' = IF inst.term /\ total + inst.size < need
                         THEN "OUTPUT_TOO_SMALL" ELSE "RUNNING"
    /\ UNCHANGED <<mode, code, tail, need, room>>

DecodeOne ==
    /\ dstatus = "RUNNING" /\ Wanting
    /\ Len(insts) < Len(code)
    /\ LET inst == code[Len(insts) + 1]
       IN  /\ insts' = Append(insts, [address |-> Origin + total, inst |-> inst])
           /\ total' = total + inst.size
           /\ dstatus' = IF inst.term /\ total + inst.size < need
                         THEN "OUTPUT_TOO_SMALL" ELSE "RUNNING"
    /\ UNCHANGED <<mode, code, tail, need, room>>

\* Mutant of DecodeFails: the failure is skipped and decoding tried again.
DecodeFailsOn ==
    /\ dstatus = "RUNNING" /\ Wanting /\ Len(insts) = Len(code)
    /\ UNCHANGED decodeVars

DecodeFails ==
    /\ dstatus = "RUNNING" /\ Wanting
    /\ Len(insts) = Len(code)
    /\ dstatus' = tail
    /\ UNCHANGED <<mode, code, tail, need, room, insts, total>>

LoopEnds ==
    /\ dstatus = "RUNNING" /\ ~Wanting
    /\ dstatus' = IF total < need THEN "OUTPUT_TOO_SMALL" ELSE "OK"
    /\ UNCHANGED <<mode, code, tail, need, room, insts, total>>

DecodeStep == DecodeOne \/ DecodeFails \/ LoopEnds

\* The call is synchronous: nothing but the caller's thread could stop it.
BlockSpec == BlockInit /\ [][DecodeStep]_decodeVars /\ WF_decodeVars(DecodeStep)

-----------------------------------------------------------------------------
(***************************************************************************)
(* Properties.                                                             *)
(***************************************************************************)

\* The loop computes the block the declarative specification promises, with
\* its status, count and size, whatever order its exits are tested in.
Verdict == IF dstatus = "RUNNING"
           THEN [status |-> "RUNNING", count |-> 0, total |-> 0]
           ELSE [status |-> dstatus, count |-> Len(insts), total |-> total]

Oracle == INSTANCE BlockOracle WITH verdict <- Verdict

ImplementsOracle == Oracle!Spec

\* A block never runs past an instruction that ends the straight line: what
\* follows it may be data or another function, and must not be moved.
NothingAfterTerminator ==
    \A k \in 1..(Len(insts) - 1) : ~insts[k].inst.term

\* The decoded instructions lie end to end from the first byte and fill
\* exactly the size reported, so that overwriting `total' bytes cuts no
\* instruction in two; and a successful block has no instruction to spare.
BlockTiles ==
    /\ \A k \in 1..Len(insts) :
          insts[k].address + insts[k].inst.size =
              IF k < Len(insts) THEN insts[k + 1].address ELSE Origin + total
    /\ Len(insts) > 0 => insts[1].address = Origin
    /\ dstatus = "OK" =>
          /\ total >= need
          /\ Len(insts) > 0 => insts[Len(insts)].address < Origin + need

\* The call returns: every turn of the loop makes progress towards one of its
\* exits.
DecodeReturns == <>(dstatus # "RUNNING")
=============================================================================
