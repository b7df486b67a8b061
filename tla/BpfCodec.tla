------------------------------ MODULE BpfCodec ------------------------------
(***************************************************************************)
(* The BPF decoder and encoder.  An instruction word is the record of its  *)
(* fields; the two words of lddw are one code of sixteen bytes.  The form  *)
(* of a record says what stands in each operand and in which field it is   *)
(* kept (Roles), which is all that tells the fourteen cases of the two     *)
(* switches apart.                                                         *)
(*                                                                         *)
(* The widths of the fields are constants; in the library an offset has 16 *)
(* bits and an immediate 32.                                               *)
(***************************************************************************)
EXTENDS CodecBase

CONSTANTS
    BpfRecords,     \* the table: opcode, form, kind, fixed fields, width, ...
    OffBits,        \* width of the offset field, 16
    ImmBits,        \* width of the immediate field, 32
    AddrBits        \* width of an address, 64

ASSUME BpfAssumption ==
    /\ {OffBits, ImmBits, AddrBits} \subseteq Nat \ {0}
    /\ OffBits + 3 <= AddrBits

BpfKinds == {"ALU", "LOAD", "STORE", "DIRECT_BRANCH", "COND_BRANCH",
             "INDIRECT_BRANCH", "DIRECT_CALL", "INDIRECT_CALL", "RETURN", "PSEUDO"}

Roles ==
    [ALU_RR |-> <<"dst", "src">>, ALU_RI |-> <<"dst", "imm">>,
     ALU_DST |-> <<"dst">>,
     LOAD_MEM |-> <<"dst", "srcMem">>, STORE_MEM_REG |-> <<"dstMem", "src">>,
     STORE_MEM_IMM |-> <<"dstMem", "imm">>, BRANCH |-> <<"target">>,
     BRANCH_RR |-> <<"target", "dst", "src">>,
     BRANCH_RI |-> <<"target", "dst", "imm">>, CALL_IMM |-> <<"imm">>,
     CALL_REG |-> <<"dst">>, LD_IMM64 |-> <<"dst", "imm64">>,
     LOAD_ABS |-> <<"absMem">>, LOAD_IND |-> <<"src">>]

(***************************************************************************)
(* Operands: kind, register, immediate, branch target, memory base and     *)
(* displacement, width, and whether a memory operand has parts BPF lacks.  *)
(***************************************************************************)
BpfOperand(kind, reg, imm, target, base, width) ==
    [kind |-> kind, reg |-> reg, imm |-> imm, target |-> target, base |-> base,
     width |-> width, odd |-> FALSE]

BpfInvalidReg == 0
BpfRegId(reg, width) ==
    IF reg > 11 THEN BpfInvalidReg ELSE (IF width = 32 THEN 1 ELSE 2) + 2 * reg

BpfReg(reg, width)  == BpfOperand("REG", BpfRegId(reg, width), 0, 0, 0, width)
BpfImm(imm, width)  == BpfOperand("IMM", 0, imm, 0, 0, width)
BpfMem(base, off)   == BpfOperand("MEM", 0, off, 0, BpfRegId(base, 64), 64)
BpfAbsMem(off, width) == BpfOperand("MEM", 0, off, 0, BpfInvalidReg, width)
BpfPcRel(address, off) ==
    BpfOperand("PC_REL", 0, off * 8, Wrap(address + 8 + off * 8, AddrBits), 0, 16)

(***************************************************************************)
(* Decoding.                                                               *)
(***************************************************************************)
BpfFits(word, rec) ==
    /\ rec.opcode = word.op
    /\ "OFF" \in rec.match => rec.off = word.off
    /\ "IMM" \in rec.match => rec.imm = word.imm
    /\ "SRC" \in rec.match => rec.src = word.src

BpfFind(feats, word) == Search(BpfRecords, feats, LAMBDA rec : BpfFits(word, rec))

\* Three forms have 64-bit registers whatever the width of the record.
FullWidthForms == {"CALL_REG", "LD_IMM64", "LOAD_IND"}
RegWidth(rec)  == IF rec.form \in FullWidthForms THEN 64 ELSE rec.width

BpfDecodeOperand(rec, role, word, address) ==
    CASE role = "dst"    -> BpfReg(word.dst, RegWidth(rec))
      [] role = "src"    -> BpfReg(word.src, RegWidth(rec))
      [] role = "imm"    -> BpfImm(word.imm, 32)
      [] role = "imm64"  -> BpfImm(Signed(Wrap(word.imm, ImmBits)
                                          + Pow2(ImmBits) * word.hi, 2 * ImmBits), 64)
      [] role = "srcMem" -> BpfMem(word.src, word.off)
      [] role = "dstMem" -> BpfMem(word.dst, word.off)
      [] role = "absMem" -> BpfAbsMem(word.imm, rec.width)
      [] role = "target" -> BpfPcRel(address, word.off)

BpfFlags ==
    [k \in BpfKinds |->
        CASE k = "DIRECT_BRANCH"   -> {"PC_RELATIVE", "DIRECT", "TERMINATOR"}
          [] k = "COND_BRANCH"     -> {"PC_RELATIVE", "DIRECT", "CONDITIONAL"}
          [] k = "INDIRECT_BRANCH" -> {"TERMINATOR"}
          [] k = "DIRECT_CALL"     -> {"CALL", "DIRECT"}
          [] k = "INDIRECT_CALL"   -> {"CALL"}
          [] k = "RETURN"          -> {"RETURN", "TERMINATOR"}
          [] k = "PSEUDO"          -> {"PAIR_PREFIX"}
          [] OTHER                 -> {}]

BpfInst(id, mnemonic, cls, flags, ops, size, address) ==
    [id |-> id, mnemonic |-> mnemonic, cls |-> cls, flags |-> flags, ops |-> ops,
     size |-> size, address |-> address]

NoBpfInst == BpfInst("none", "none", "OTHER", {}, <<>>, 0, 0)

BpfDecode(feats, word, avail, address) ==
    LET found == BpfFind(feats, word)
        rec   == BpfRecords[found.at]
        size  == IF found.at # 0 THEN rec.size
                 ELSE IF word.op = 24 THEN 16 ELSE 8
    IN  IF avail < 8 THEN Decoding("DECODE_FAILED", NoBpfInst)
        ELSE IF found.at = 0 /\ found.blocked
             THEN Decoding("UNSUPPORTED_FEATURE", NoBpfInst)
        ELSE IF size > avail THEN Decoding("DECODE_FAILED", NoBpfInst)
        ELSE IF found.at = 0
             THEN Decoding("OK", BpfInst("OTHER", "other", "OTHER", {}, <<>>, size, address))
        ELSE Decoding("OK",
                 BpfInst(rec.id, rec.mnemonic, rec.kind, BpfFlags[rec.kind],
                         [i \in DOMAIN Roles[rec.form] |->
                             BpfDecodeOperand(rec, Roles[rec.form][i], word, address)],
                         size, address))

(***************************************************************************)
(* Encoding.  A register operand is written as it is: the encoder takes    *)
(* the number of the register, not the id the decoder gives it.            *)
(***************************************************************************)
BpfRegOk(reg) == reg <= 15

BpfWidthMatches(op, width) ==
    \/ width = 0
    \/ op.width = 0 /\ width = 64
    \/ op.width # 0 /\ op.width = width

BpfIsReg(op, width) == op.kind = "REG" /\ BpfRegOk(op.reg) /\ BpfWidthMatches(op, width)
BpfIsImm(op)        == op.kind = "IMM"
BpfIsMem(op, width) ==
    /\ op.kind = "MEM" /\ ~op.odd /\ BpfRegOk(op.base)
    /\ FitsSigned(op.imm, OffBits) /\ BpfWidthMatches(op, width)
BpfIsAbsMem(op, width) ==
    /\ op.kind = "MEM" /\ ~op.odd /\ op.base = BpfInvalidReg
    /\ FitsSigned(op.imm, ImmBits) /\ BpfWidthMatches(op, width)
BpfIsTarget(op) == op.kind \in {"PC_REL", "IMM"}

\* The register of a load or store may have any width.
BpfRoleMatches(rec, role, op) ==
    CASE role \in {"dst", "src"}       ->
            BpfIsReg(op, IF rec.form \in {"LOAD_MEM", "STORE_MEM_REG"}
                         THEN 0 ELSE RegWidth(rec))
      [] role \in {"imm", "imm64"}     -> BpfIsImm(op)
      [] role \in {"srcMem", "dstMem"} -> BpfIsMem(op, rec.width)
      [] role = "absMem"               -> BpfIsAbsMem(op, rec.width)
      [] role = "target"               -> BpfIsTarget(op)

\* exit has no operand although it has the form of an operation on one.
BpfTakes(rec) == IF rec.kind = "RETURN" THEN <<>> ELSE Roles[rec.form]

BpfMatches(rec, inst) ==
    /\ rec.mnemonic = inst.mnemonic
    /\ Len(inst.ops) = Len(BpfTakes(rec))
    /\ \A i \in DOMAIN inst.ops : BpfRoleMatches(rec, BpfTakes(rec)[i], inst.ops[i])

BpfChoose(feats, inst) ==
    SearchTwice(Search(BpfRecords, feats, LAMBDA rec : rec.id = inst.id),
                Search(BpfRecords, feats, LAMBDA rec : BpfMatches(rec, inst)))

\* Mutant of BpfDisp: the displacement is taken from the instruction itself.
BpfDispFromStart(op, address) ==
    IF op.kind = "PC_REL" /\ (op.target # 0 \/ op.imm = 0)
    THEN Signed(op.target - address, AddrBits)
    ELSE op.imm

\* The displacement a branch operand asks for: the target when there is one.
BpfDisp(op, address) ==
    IF op.kind = "PC_REL" /\ (op.target # 0 \/ op.imm = 0)
    THEN Signed(op.target - (address + 8), AddrBits)
    ELSE op.imm

BpfPackBranch(op, address) ==
    LET disp == BpfDisp(op, address)
    IN  IF disp % 8 # 0 THEN "ENCODE_FAILED"
        ELSE IF ~FitsSigned(disp \div 8, OffBits) THEN "BRANCH_OUT_OF_RANGE"
        ELSE "OK"

\* What is asked of an operand once the record is chosen, by id or otherwise.
BpfOperandStatus(rec, role, op, address) ==
    LET ok == CASE role \in {"dst", "src"}       -> BpfRegOk(op.reg)
                [] role = "imm"                  -> FitsSigned(op.imm, ImmBits)
                [] role \in {"srcMem", "dstMem"} -> BpfIsMem(op, rec.width)
                [] role = "absMem"               -> BpfIsAbsMem(op, rec.width)
                [] OTHER                         -> TRUE
    IN  IF role = "target" THEN BpfPackBranch(op, address)
        ELSE IF ok THEN "OK" ELSE "ENCODE_FAILED"

BpfBlank(rec) ==
    [op |-> rec.opcode, dst |-> 0, src |-> 0, hi |-> 0,
     off |-> IF "OFF" \in rec.match THEN rec.off ELSE 0,
     imm |-> IF "IMM" \in rec.match THEN rec.imm ELSE 0]

BpfStore(word, role, op, address) ==
    CASE role = "dst"    -> [word EXCEPT !.dst = op.reg]
      [] role = "src"    -> [word EXCEPT !.src = op.reg]
      [] role = "imm"    -> [word EXCEPT !.imm = op.imm]
      [] role = "imm64"  -> [word EXCEPT !.imm = Signed(op.imm, ImmBits),
                                         !.hi = Wrap(op.imm, 2 * ImmBits)
                                                    \div Pow2(ImmBits)]
      [] role = "srcMem" -> [word EXCEPT !.src = op.base, !.off = op.imm]
      [] role = "dstMem" -> [word EXCEPT !.dst = op.base, !.off = op.imm]
      [] role = "absMem" -> [word EXCEPT !.imm = op.imm]
      [] role = "target" -> [word EXCEPT !.off = BpfDisp(op, address) \div 8]

\* The first operand that is missing or wrong decides.
BpfOperandsStatus(rec, inst) ==
    LET roles     == BpfTakes(rec)
        status(i) == IF i > Len(inst.ops) THEN "ENCODE_FAILED"
                     ELSE BpfOperandStatus(rec, roles[i], inst.ops[i], inst.address)
        wrong     == {i \in DOMAIN roles : status(i) # "OK"}
    IN  IF wrong = {} THEN "OK" ELSE status(LeastOf(wrong))

BpfWord(rec, inst) ==
    LET roles == BpfTakes(rec)
        store[i \in 0..Len(roles)] ==
            IF i = 0 THEN BpfBlank(rec)
            ELSE BpfStore(store[i - 1], roles[i], inst.ops[i], inst.address)
    IN  store[Len(roles)]

\* The size is reported and the capacity compared before the operands are read.
BpfEncode(feats, inst, cap) ==
    LET found == BpfChoose(feats, inst)
        rec   == BpfRecords[found.at]
        st    == BpfOperandsStatus(rec, inst)
    IN  IF found.at = 0 THEN Encoding(NotFound(found), 0, <<>>)
        ELSE IF cap < rec.size THEN Encoding("OUTPUT_TOO_SMALL", rec.size, <<>>)
        ELSE IF st # "OK" THEN Encoding(st, rec.size, <<>>)
        ELSE Encoding("OK", rec.size, <<BpfWord(rec, inst)>>)
=============================================================================
