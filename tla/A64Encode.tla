----------------------------- MODULE A64Encode ------------------------------
(***************************************************************************)
(* The AArch64 encoder: the first record of the encoder's order that has   *)
(* the identity of the instruction and takes its operands.  A value is a   *)
(* set of bits; what an operand may be written as is a set with one value  *)
(* or none.                                                                *)
(***************************************************************************)
EXTENDS A64Decode

(***************************************************************************)
(* Immediates.                                                             *)
(***************************************************************************)
RawUnsigned(n, mask) == IF n >= 0 /\ BitsOf(n) \subseteq mask THEN {BitsOf(n)} ELSE {}

RawSigned(n, mask) ==
    LET width == SourceWidth(mask)
    IN  IF width = 0 THEN (IF n = 0 THEN {{}} ELSE {})
        ELSE IF ~FitsSigned(n, width) THEN {}
        ELSE RawUnsigned(Wrap(n, width), mask)

AddSubImm(n, mask) ==
    IF n \in 0..4095 THEN RawUnsigned(n, mask)
    ELSE IF n % 4096 = 0 /\ n \div 4096 \in 0..4095 THEN RawUnsigned(4096 + n \div 4096, mask)
    ELSE {}

MovShift(n, mask, most) ==
    IF n \in {0, 16, 32, 48} /\ n <= most THEN RawUnsigned(n, mask) ELSE {}

\* The library tries every encoding and takes the least.  Here only those with an
\* element of e bits, s + 1 of them ones, that have as many ones in all.
Encodings(ones, width) ==
    LET count == Cardinality(ones)
        fields == {IF e = 64 THEN <<4096, e, (count * e) \div width - 1>>
                   ELSE <<64 - 2 * e, e, (count * e) \div width - 1>> :
                      e \in {x \in {2, 4, 8, 16, 32, 64} : x <= width /\ (count * x) % width = 0}}
    IN  {f[1] + f[3] + 64 * r : f \in {g \in fields : g[3] \in 0..(g[2] - 2)}, r \in 0..63}

LogicalValue(ones, width, mask) ==
    LET wanted == ones \cap (0..(width - 1))
        high   == ones \cap (32..63)
        found  == {n \in Encodings(wanted, width) :
                      BitsOf(n) \subseteq mask /\ LogicalOnes(BitsOf(n), width) = wanted}
    IN  IF width = 32 /\ high # {} /\ ~((31..63) \subseteq ones) THEN {}
        ELSE IF found = {} THEN {} ELSE {BitsOf(LeastOf(found))}

ScaledDown(n, lit) == IF n % lit = 0 THEN {n \div lit} ELSE {}

ImmValue(op, desc) ==
    LET lit  == desc.literal
        mask == desc.mask
        n    == op.imm
    IN  IF mask = {} /\ lit # 0 THEN (IF n = lit THEN {BitsOf(lit)} ELSE {})
        ELSE CASE desc.transform = "RAW" -> RawUnsigned(n, mask)
          [] desc.transform = "SIGNED"   -> RawSigned(n, mask)
          [] desc.transform = "SIGNED_SCALED" ->
                UNION {RawSigned(x, mask) : x \in ScaledDown(n, lit)}
          [] desc.transform = "UNSIGNED_SCALED" ->
                IF n < 0 THEN {} ELSE UNION {RawUnsigned(x, mask) : x \in ScaledDown(n, lit)}
          [] desc.transform = "UNSIGNED_OFFSET" -> RawUnsigned(n - lit, mask)
          [] desc.transform = "FIXEDPOINT_SCALE" ->
                IF n \in 1..lit /\ BitsOf(lit - n) \ mask = (0..5) \ mask
                THEN {BitsOf(lit - n) \cap mask} ELSE {}
          [] desc.transform = "VEC_SHIFT_RIGHT" ->
                IF n \in 1..lit THEN RawUnsigned(lit - n, mask) ELSE {}
          [] desc.transform = "VEC_SHIFT_RIGHT_NARROW" ->
                IF n \in 1..(lit \div 2) THEN RawUnsigned((lit - n) % (lit \div 2), mask) ELSE {}
          [] desc.transform = "COMPLEX_ROTATE" ->
                IF n \in 0..270 THEN UNION {RawUnsigned(x, mask) : x \in ScaledDown(n, 90)}
                ELSE {}
          [] desc.transform = "ADD_SUB"     -> AddSubImm(n, mask)
          [] desc.transform = "MOV_SHIFT32" -> MovShift(n, mask, 16)
          [] desc.transform = "MOV_SHIFT64" -> MovShift(n, mask, 48)
          [] OTHER -> LogicalValue(op.ones, desc.width, mask)

(***************************************************************************)
(* Registers.  A caller may also give the bare number of a register, which *)
(* the numbers of none, w0, w1, ... are mistaken for.                      *)
(***************************************************************************)
RawNumber(reg) == CASE reg = NoA64Reg -> 0
                    [] reg[1] = "GPR" /\ reg[3] = 32 -> reg[2] + 1
                    [] OTHER -> 1000
InfoWidth(reg) == IF reg[1] \in {"GPR", "SP", "ZR", "SIMD"} THEN reg[3] ELSE 0

OfClass(reg, desc) ==
    CASE desc.class = "GPR" -> reg[1] \in {"GPR", "ZR", "SP", "none"}
      [] desc.class = "MATRIX_TILE" -> reg[1] = desc.class /\ reg[3] = desc.width
      [] OTHER -> reg[1] = desc.class

\* The number of a register where one of width bits is expected.
NumbersFor(op, width, last) ==
    IF op.reg # NoA64Reg /\ (width \in {0, InfoWidth(op.reg)} \/ (width = op.width))
    THEN {op.reg[2]}
    ELSE IF RawNumber(op.reg) <= last /\ (width = 0 \/ op.width \in {0, width})
    THEN {RawNumber(op.reg)} ELSE {}

RegEncodings(op, desc) ==
    IF /\ op.kind = "REG" /\ OfClass(op.reg, desc)
       /\ desc.literal # 0 /\ "VECTOR_LIST" \in op.flags => op.imm = desc.literal
       /\ desc.class = "GPR" /\ op.reg[2] = 31 => op.reg[1] = IF desc.sp THEN "SP" ELSE "ZR"
    THEN NumbersFor(op, desc.width, 30) ELSE {}

Unshifted(op) == op.shift = <<0, 0>>
Unextended(op) == op.extend = <<0, 0>> /\ "EXTENDED_REG" \notin op.flags

ShiftedValue(op, desc) ==
    IF /\ Unextended(op)
       /\ op.shift[2] < (IF desc.width = 32 THEN 32 ELSE 64) /\ op.shift[1] \in 0..3
       /\ desc.transform = "ARITH_SHIFTED" => op.shift[1] # 3
    THEN {n + 32 * op.shift[2] + 2048 * op.shift[1] : n \in RegEncodings(op, desc)}
    ELSE {}

\* An extended register, whose width the extension decides.
AnyWidth(op) ==
    IF op.reg # NoA64Reg
    THEN IF op.reg[1] \in {"GPR", "ZR"} /\ op.width \in {0, op.reg[3]}
         THEN {<<op.reg[2], op.reg[3]>>} ELSE {}
    ELSE IF op.width \in {32, 64} THEN {<<0, op.width>>} ELSE {}

ExtendedValue(op, desc) ==
    IF /\ "EXTENDED_REG" \in op.flags /\ Unshifted(op)
       /\ op.extend[1] \in 0..7 /\ op.extend[2] \in 0..4
       /\ desc.width = 32 => op.extend[1] \notin {3, 7}
    THEN {r[1] + 32 * op.extend[2] + 256 * op.extend[1] :
            r \in {x \in AnyWidth(op) : x[2] = ExtendedWidth(op.extend[1], desc.width)}}
    ELSE {}

PairValue(op, desc) ==
    LET n == IF op.reg = NoA64Reg THEN 0 ELSE op.reg[2]
    IN  IF /\ "REGISTER_PAIR" \in op.flags /\ Unshifted(op) /\ Unextended(op)
           /\ n <= 30 /\ n % 2 = 0
           /\ IF op.reg = NoA64Reg THEN op.width \in {0, desc.width}
              ELSE InfoWidth(op.reg) = desc.width
        THEN {n} ELSE {}

XzrPairValue(op) ==
    IF "REGISTER_PAIR" \in op.flags /\ Unshifted(op) /\ Unextended(op) /\ op.reg = <<"ZR", 31, 64>>
    THEN {0} ELSE {}

PlainValue(op, desc, first, last) ==
    IF Unshifted(op) /\ Unextended(op)
    THEN {n - first : n \in RegEncodings(op, desc) \cap (first..last)} ELSE {}

RegNumber(op, desc) ==
    CASE desc.transform = "GPR_SEQ_PAIR"   -> PairValue(op, desc)
      [] desc.transform = "SYSP_XZR_PAIR"  -> XzrPairValue(op)
      [] desc.transform \in {"ARITH_SHIFTED", "LOGICAL_SHIFTED"} -> ShiftedValue(op, desc)
      [] desc.transform = "ARITH_EXTENDED" -> ExtendedValue(op, desc)
      [] desc.transform = "PNR_P8_TO_P15"  -> PlainValue(op, desc, 8, 15)
      [] desc.transform = "GPR_W12_TO_W15" -> PlainValue(op, desc, 12, 15)
      [] OTHER -> PlainValue(op, desc, 0, 31)

(***************************************************************************)
(* Operands and records.                                                   *)
(***************************************************************************)
OpaqueValue(op, desc) ==
    IF op.width \notin {0, desc.width} THEN {}
    ELSE IF desc.mask = {} THEN (IF op.imm = desc.literal THEN {BitsOf(op.imm)} ELSE {})
    ELSE RawUnsigned(op.imm, desc.mask)

A64TargetOf(inst, op) ==
    IF op.target # 0 \/ op.imm = 0 THEN op.target ELSE A64Wrap(inst.address + op.imm)

PcRelValue(inst, op, desc) ==
    LET target == A64TargetOf(inst, op)
        disp   == Signed(target - inst.address, A64AddrBits)
        pages  == Signed(PageOf(target) - PageOf(inst.address), A64AddrBits)
    IN  CASE desc.transform = "WORDS4" ->
                UNION {RawSigned(x, desc.mask) : x \in ScaledDown(disp, 4)}
          [] desc.transform = "ADR"  -> RawSigned(disp, desc.mask)
          [] desc.transform = "ADRP" -> RawSigned(pages \div Pow2(A64PageBits), desc.mask)

A64OperandValue(inst, op, desc) ==
    IF op.kind # desc.kind THEN {}
    ELSE CASE desc.kind = "REG" -> UNION {RawUnsigned(n, desc.mask) : n \in RegNumber(op, desc)}
      [] desc.kind = "IMM"    -> ImmValue(op, desc)
      [] desc.kind = "OPAQUE" -> OpaqueValue(op, desc)
      [] desc.kind = "PC_REL" -> PcRelValue(inst, op, desc)

A64Identity(row, inst) ==
    inst.id = row.id \/ (inst.id = "none" /\ row.byName /\ inst.mnemonic = row.mnemonic)

\* The word a record makes of the operands, and what keeps it from doing so: a
\* field of the processor state may need a feature of its own.
PackWith(f, row, values) ==
    LET word    == row.value \cup row.sets
                   \cup {p[3] : p \in {q \in row.pieces : q[2] \in values[q[1]]}}
        opaques == {k \in DOMAIN row.ops : row.ops[k].kind = "OPAQUE"}
        field   == NatOf(values[LeastOf(opaques)])
        known   == \E p \in A64Pstates : p[1] = row.predicate /\ p[2] = field
    IN  IF row.predicate = "NONE" \/ (opaques # {} /\ PstateAllows(f, row.predicate, field))
        THEN [fits |-> TRUE, blocked |-> FALSE, word |-> word]
        ELSE [fits |-> FALSE, blocked |-> opaques # {} /\ known, word |-> {}]

Unpacked == [fits |-> FALSE, blocked |-> FALSE, word |-> {}]

PackOperands(f, row, values) ==
    IF \E k \in DOMAIN row.ops : values[k] = {} THEN Unpacked
    ELSE PackWith(f, row, [k \in DOMAIN row.ops |-> UNION values[k]])

Pack(f, row, inst) ==
    IF ~FeaturesMatch(f, row) THEN [Unpacked EXCEPT !.blocked = TRUE]
    ELSE IF Len(inst.ops) # Len(row.ops) THEN Unpacked
    ELSE PackOperands(f, row, [k \in DOMAIN row.ops |->
                                  A64OperandValue(inst, inst.ops[k], row.ops[k])])

WordAnswer(word, cap) ==
    IF cap < 4 THEN Encoding("OUTPUT_TOO_SMALL", 4, <<>>) ELSE Encoding("OK", 4, <<word>>)

FirstByRank(S) ==
    CHOOSE i \in S : \A j \in S : A64Records[i].rank <= A64Records[j].rank

\* Records without operands have a table of their own.
EncodeFixed(f, inst, cap) ==
    LET named == {i \in DOMAIN A64Records :
                    A64Records[i].ops = <<>> /\ A64Identity(A64Records[i], inst)}
        free  == {i \in named : FeaturesMatch(f, A64Records[i])}
    IN  IF free # {} THEN WordAnswer(A64Records[FirstByRank(free)].value, cap)
        ELSE Encoding(NotFound([blocked |-> named # {}]), 0, <<>>)

\* A record that only misses a feature does not count when another one of the
\* name has its features and does not take the operands.
AnswerPacked(packed, cap) ==
    LET fits == {i \in DOMAIN packed : packed[i].fits}
        only == \A i \in DOMAIN packed : packed[i].blocked
    IN  IF fits # {} THEN WordAnswer(packed[FirstByRank(fits)].word, cap)
        ELSE Encoding(NotFound([blocked |-> DOMAIN packed # {} /\ only]), 0, <<>>)

EncodeBitfield(f, inst, cap, named) ==
    AnswerPacked([i \in named |-> Pack(f, A64Records[i], inst)], cap)

(***************************************************************************)
(* The overlay encodes branches itself; a return always goes to x30.       *)
(***************************************************************************)
A64BranchNames == [A64_B |-> "b", A64_BL |-> "bl", A64_BR |-> "br", A64_BLR |-> "blr",
                A64_RET |-> "ret"]
A64MnemonicOf(inst) ==
    IF inst.mnemonic = "none" /\ inst.id \in DOMAIN A64BranchNames
    THEN A64BranchNames[inst.id] ELSE inst.mnemonic

EmitRel(inst, call, cap) ==
    LET disp == Signed(A64TargetOf(inst, inst.ops[1]) - inst.address, A64AddrBits)
        base == IF call THEN <<37888, 0>> ELSE <<5120, 0>>
    IN  IF disp % 4 # 0 \/ ~FitsSigned(disp \div 4, 26)
        THEN Encoding("BRANCH_OUT_OF_RANGE", 4, <<>>)
        ELSE WordAnswer(A64Bits(base) \cup BitsOf(Wrap(disp \div 4, 26)), cap)

A64BranchRegs(inst) ==
    IF inst.ops = <<>> \/ inst.ops[1].kind # "REG" THEN {}
    ELSE NumbersFor(inst.ops[1], 64, 31)

EncodeGenerated(f, inst, cap) ==
    IF inst.ops = <<>> THEN EncodeFixed(f, inst, cap)
    ELSE EncodeBitfield(f, inst, cap,
            {i \in DOMAIN A64Records :
                A64Records[i].ops # <<>> /\ A64Identity(A64Records[i], inst)})

EncodeNamed(f, inst, cap, mnemonic) ==
    CASE mnemonic \in {"b", "bl"} /\ inst.ops # <<>> /\ inst.ops[1].kind = "PC_REL" ->
            EmitRel(inst, mnemonic = "bl", cap)
      [] mnemonic \in {"br", "blr"} /\ A64BranchRegs(inst) # {} ->
            WordAnswer(A64Bits(IF mnemonic = "br" THEN <<54815, 0>> ELSE <<54847, 0>>)
                       \cup {i + 5 : i \in UNION {BitsOf(n) : n \in A64BranchRegs(inst)}}, cap)
      [] mnemonic = "ret" -> WordAnswer(A64Bits(<<54879, 960>>), cap)
      [] OTHER -> EncodeGenerated(f, inst, cap)

A64Encode(f, inst, cap) == EncodeNamed(f, inst, cap, A64MnemonicOf(inst))
=============================================================================
