----------------------------- MODULE A64Decode ------------------------------
(***************************************************************************)
(* The AArch64 decoder.  An instruction is one word, the set of its bits   *)
(* that are one, and so are the masks, the values and the immediates of    *)
(* logical instructions.  A record has its fixed bits (`mask', `value'),   *)
(* its operands and the pieces <<operand, bit of the operand, bit of the   *)
(* word>> they are put together from.                                      *)
(***************************************************************************)
EXTENDS CodecBase
LOCAL INSTANCE FiniteSetsExt

CONSTANTS
    A64Records,     \* the table, in the order of the decoder
    A64Pstates,     \* the fields of the processor state: <<predicate, number, features>>
    A64AddrBits,    \* bits of an address, 64
    A64PageBits     \* bits within a page, 12

ASSUME A64Assumption == A64AddrBits \in 28..30 /\ A64PageBits \in 1..A64AddrBits

(***************************************************************************)
(* Numbers and their bits.  A pair is the upper and the lower half.        *)
(***************************************************************************)
BitsOf(n)     == {i \in 0..30 : (n \div Pow2(i)) % 2 = 1}
NatOf(bits)   == MapThenSumSet(Pow2, bits)
A64Bits(pair) == {i \in 0..31 : (pair[IF i > 15 THEN 1 ELSE 2] \div Pow2(i % 16)) % 2 = 1}

WordField(w, first, n) == NatOf({i \in 0..(n - 1) : (first + i) \in w})
HasBits(w, mask, value) == w \cap A64Bits(mask) = A64Bits(value)

\* The width of a field is that of its mask up to the highest bit.
SourceWidth(mask) == IF mask = {} THEN 0 ELSE Max(mask) + 1

A64Wrap(x) == Wrap(x, A64AddrBits)
PageOf(a)  == a - (a % Pow2(A64PageBits))

(***************************************************************************)
(* Immediates of logical instructions: a run of ones within an element,    *)
(* rotated and repeated over the register.                                 *)
(***************************************************************************)
ElementBits(n, imms) ==
    LET len == (IF n THEN {6} ELSE {}) \cup ((0..5) \ imms)
    IN  IF len = {} THEN 1 ELSE Pow2(Max(len))

LogicalOnes(value, width) ==
    LET e == ElementBits(12 \in value, value \cap (0..5))
        s == NatOf(value \cap (0..5)) % e
        r == WordField(value, 6, 6) % e
    IN  IF e \notin 2..width \/ s = e - 1 THEN {}
        ELSE {i \in 0..(width - 1) : (i + r) % e <= s}

(***************************************************************************)
(* Registers are <<class, number, width>>; 31 is the stack pointer or      *)
(* zero, and scalable registers have no width.                             *)
(***************************************************************************)
NoA64Reg == <<"none", 0, 0>>
A64Gpr(n, width, sp) ==
    IF n < 31 THEN <<"GPR", n, width>> ELSE <<IF sp THEN "SP" ELSE "ZR", 31, width>>

A64RegisterCount(class, width) ==
    CASE class \in {"PPR", "PNR"}            -> 16
      [] class \in {"ZTR", "MATRIX_ARRAY"}   -> 1
      [] class = "MATRIX_TILE"               -> width \div 8
      [] OTHER                               -> 32

A64Reg(n, desc) ==
    IF n >= A64RegisterCount(desc.class, desc.width) THEN NoA64Reg
    ELSE IF desc.class = "GPR" THEN A64Gpr(n, desc.width, desc.sp)
    ELSE <<desc.class, n, IF desc.class \in {"SIMD", "MATRIX_TILE"} THEN desc.width ELSE 0>>

(***************************************************************************)
(* Operands.                                                               *)
(***************************************************************************)
A64Operand(kind, width) ==
    [kind |-> kind, reg |-> NoA64Reg, width |-> width, imm |-> 0, ones |-> {},
     shift |-> <<0, 0>>, extend |-> <<0, 0>>, flags |-> {}, target |-> 0,
     base |-> NoA64Reg, index |-> NoA64Reg, scale |-> 1]

A64RegOperand(reg, width) == [A64Operand("REG", width) EXCEPT !.reg = reg]
A64Imm(n, width)          == [A64Operand("IMM", width) EXCEPT !.imm = n]
A64Opaque(n, width)       == [A64Operand("OPAQUE", width) EXCEPT !.imm = n]
A64PcRel(disp, target, width) ==
    [A64Operand("PC_REL", width) EXCEPT !.imm = disp, !.target = A64Wrap(target)]

A64Pair(n, width) ==
    [A64RegOperand(A64Gpr(n, width, FALSE), width) EXCEPT !.flags = {"REGISTER_PAIR"}]

\* What an operand's bits may decode to: one operand, or none.
A64PlainReg(n, desc) ==
    LET op == A64RegOperand(A64Reg(n, desc), desc.width)
    IN  IF op.reg = NoA64Reg THEN {}
        ELSE {IF desc.literal = 0 THEN op
              ELSE [op EXCEPT !.flags = {"VECTOR_LIST"}, !.imm = desc.literal]}

A64ShiftedReg(n, desc) ==
    LET amount == (n \div 32) % 64
        kind   == (n \div 2048) % 4
    IN  {[op EXCEPT !.shift = <<kind, amount>>] :
            op \in {o \in A64PlainReg(n % 32, desc) :
                       /\ amount < (IF desc.width = 32 THEN 32 ELSE 64)
                       /\ desc.transform = "ARITH_SHIFTED" => kind # 3}}

\* A 64-bit instruction extends a W register unless it takes all of an X register.
ExtendedWidth(extend, width) == IF width = 64 /\ extend \in {3, 7} THEN 64 ELSE 32

A64ExtendedReg(n, desc) ==
    LET amount == (n \div 32) % 8
        extend == (n \div 256) % 8
        width  == ExtendedWidth(extend, desc.width)
    IN  IF amount > 4 THEN {}
        ELSE {[A64RegOperand(A64Gpr(n % 32, width, FALSE), width)
               EXCEPT !.extend = <<extend, amount>>, !.flags = {"EXTENDED_REG"}]}

A64DecodeReg(n, desc) ==
    CASE desc.transform = "GPR_SEQ_PAIR" ->
            IF n % 2 = 1 THEN {} ELSE {A64Pair(n % 32, desc.width)}
      [] desc.transform = "SYSP_XZR_PAIR" -> IF n # 0 THEN {} ELSE {A64Pair(31, 64)}
      [] desc.transform = "PNR_P8_TO_P15" -> IF n > 7 THEN {} ELSE A64PlainReg(n + 8, desc)
      [] desc.transform = "GPR_W12_TO_W15" ->
            IF n > 3 THEN {} ELSE A64PlainReg(n + 12, desc)
      [] desc.transform \in {"ARITH_SHIFTED", "LOGICAL_SHIFTED"} -> A64ShiftedReg(n, desc)
      [] desc.transform = "ARITH_EXTENDED" -> A64ExtendedReg(n, desc)
      [] OTHER -> A64PlainReg(n % 32, desc)

\* The numbers a field may stand for, one or none.
A64ImmValue(n, desc) ==
    LET lit  == desc.literal
        bits == SourceWidth(desc.mask)
        low  == NatOf((0..5) \ desc.mask)
    IN  CASE desc.transform = "SIGNED"          -> {Signed(n, bits)}
          [] desc.transform = "SIGNED_SCALED"   -> {Signed(n, bits) * lit}
          [] desc.transform = "UNSIGNED_SCALED" -> {n * lit}
          [] desc.transform = "UNSIGNED_OFFSET" -> {n + lit}
          [] desc.transform = "FIXEDPOINT_SCALE" ->
                IF n + low >= lit THEN {} ELSE {lit - n - low}
          [] desc.transform = "VEC_SHIFT_RIGHT" -> IF n > lit THEN {} ELSE {lit - n}
          \* the field is less than half of lit, which is a power of two
          [] desc.transform = "VEC_SHIFT_RIGHT_NARROW" -> {lit - (n + lit \div 2)}
          [] desc.transform = "COMPLEX_ROTATE"  -> IF n > 3 THEN {} ELSE {n * 90}
          [] desc.transform = "ADD_SUB" -> {IF n >= 4096 THEN (n % 4096) * 4096 ELSE n}
          [] OTHER -> {n}

A64DecodeImm(value, n, desc) ==
    IF desc.transform \in {"LOGICAL_IMM32", "LOGICAL_IMM64"}
    THEN {[A64Imm(0, desc.width) EXCEPT !.ones = ones] :
            ones \in {LogicalOnes(value, desc.width)} \ {{}}}
    ELSE {A64Imm(imm, desc.width) : imm \in A64ImmValue(n, desc)}

A64DecodePcRel(n, desc, address) ==
    LET disp == Signed(n, SourceWidth(desc.mask))
    IN  CASE desc.transform = "WORDS4" -> A64PcRel(4 * disp, address + 4 * disp, desc.width)
          [] desc.transform = "ADR"    -> A64PcRel(disp, address + disp, desc.width)
          [] desc.transform = "ADRP"   ->
                A64PcRel(disp * Pow2(A64PageBits),
                         PageOf(address) + disp * Pow2(A64PageBits), desc.width)

\* An operand without bits of its own stands for its literal.
OperandBits(row, k, w) ==
    IF row.ops[k].mask = {} /\ row.ops[k].kind \in {"OPAQUE", "IMM"}
    THEN BitsOf(row.ops[k].literal)
    ELSE {p[2] : p \in {q \in row.pieces : q[1] = k /\ q[3] \in w}}

A64DecodeOperand(value, n, desc, address) ==
    CASE desc.kind = "REG"    -> A64DecodeReg(n, desc)
      [] desc.kind = "IMM"    -> A64DecodeImm(value, n, desc)
      [] desc.kind = "OPAQUE" -> {A64Opaque(n, desc.width)}
      [] desc.kind = "PC_REL" -> {A64DecodePcRel(n, desc, address)}

A64Operands(row, w, address) ==
    [k \in DOMAIN row.ops |->
        LET value == OperandBits(row, k, w)
        IN  A64DecodeOperand(value, NatOf(value), row.ops[k], address)]

(***************************************************************************)
(* The search.  Of the records that fit, the one with the most fixed bits  *)
(* is meant, of those the first; the buckets of the library only spare     *)
(* comparisons that would fail.                                            *)
(***************************************************************************)
PstateAllows(f, predicate, field) ==
    \E p \in A64Pstates : p[1] = predicate /\ p[2] = field /\ p[3] \subseteq f

\* With op1 = 0 and op2 up to 2 the word is another instruction, as cfinv.
PredicateMatches(f, row, w) ==
    LET op1 == WordField(w, 16, 3)
        op2 == WordField(w, 5, 3)
        crm == IF row.predicate = "IMM0_1" THEN WordField(w, 9, 3) ELSE 0
    IN  row.predicate = "NONE" \/ /\ ~(op1 = 0 /\ op2 <= 2)
                                  /\ PstateAllows(f, row.predicate, 64 * crm + 8 * op1 + op2)

A64Fits(f, row, w) ==
    /\ w \cap row.mask = row.value
    /\ PredicateMatches(f, row, w)
    /\ \A k \in DOMAIN row.ops : A64Operands(row, w, 0)[k] # {}

A64Best(S) ==
    CHOOSE i \in S : \A j \in S :
        LET a == A64Records[i].fixed
            b == A64Records[j].fixed
        IN  a > b \/ (a = b /\ i <= j)

(***************************************************************************)
(* Base, index and displacement become one memory operand.                 *)
(***************************************************************************)
A64Mem(base, index, scale, disp, width, access) ==
    [A64Operand("MEM", width) EXCEPT !.base = base, !.index = index, !.scale = scale,
                                     !.imm = disp, !.flags = access]

IsBase(op) == op.kind = "REG" /\ op.width = 64 /\ op.reg[1] \in {"GPR", "SP"}
AccessWidth(w, data) == IF data.width > 64 THEN data.width ELSE 8 * Pow2(WordField(w, 30, 2))
AccessOf(row) == IF row.cls = "LOAD" THEN {"READ"} ELSE {"WRITE"}
IsPrefetch(row) == row.mnemonic \in {"prfm", "prfum"}

\* The operands a record must begin with; "BASE" is a 64-bit register that can
\* be a base.
Shaped(ops, shape) ==
    /\ Len(ops) = Len(shape)
    /\ \A i \in DOMAIN shape :
          IF shape[i] = "BASE" THEN IsBase(ops[i]) ELSE shape[i] \in {"ANY", ops[i].kind}

\* Records with writeback have the base first; these are those of the table.
WritebackFirst == {"LDRXpre"}

\* An option of an index register, which is folded with it.
IsOption(op) == op.kind = "OPAQUE" \/ (op.kind = "IMM" /\ op.width <= 8 /\ op.imm \in 0..15)
IndexScale(w) == IF 12 \in w THEN Pow2(WordField(w, 30, 2)) ELSE 1
GatherScale(row) == IF row.mnemonic = "ldff1h" THEN 2 ELSE 1

MemoryForms(row, w, ops) ==
    LET width == AccessWidth(w, ops[1])
        At(base, index, scale, disp, access) ==
            A64Mem(base.reg, index, scale, disp, width, access)
    IN  CASE row.id \in WritebackFirst /\ Len(ops) = 3 ->
                IF Shaped(ops, <<"BASE", "REG", "IMM">>)
                THEN <<ops[2], A64Mem(ops[1].reg, NoA64Reg, 1, ops[3].imm,
                                      AccessWidth(w, ops[2]), {"READ", "WRITE"})>>
                ELSE ops
          [] Shaped(ops, <<"REG", "REG", "REG", "BASE">>) ->
                SubSeq(ops, 1, 3) \o <<At(ops[4], NoA64Reg, 1, 0, AccessOf(row))>>
          [] Shaped(ops, <<"REG", "BASE", "REG", "ANY">>) ->
                IF IsOption(ops[4])
                THEN <<ops[1], At(ops[2], ops[3].reg, IndexScale(w), 0, AccessOf(row))>>
                ELSE ops
          [] Shaped(ops, <<"REG", "REG", "BASE", "REG">>) ->
                <<ops[1], ops[2], A64Mem(ops[3].reg, ops[4].reg, GatherScale(row), 0,
                                         8 * GatherScale(row), {"READ"})>>
          [] IsPrefetch(row) /\ Shaped(ops, <<"OPAQUE", "BASE", "IMM">>) ->
                <<ops[1], At(ops[2], NoA64Reg, 1, ops[3].imm, {"READ"})>>
          [] Shaped(ops, <<"REG", "BASE", "IMM">>) ->
                <<ops[1], At(ops[2], NoA64Reg, 1, ops[3].imm, AccessOf(row))>>
          [] Shaped(ops, <<"REG", "REG", "BASE">>) ->
                <<ops[1], ops[2], At(ops[3], NoA64Reg, 1, 0, {"READ", "WRITE"})>>
          [] Shaped(ops, <<"REG", "BASE">>) ->
                <<ops[1], At(ops[2], NoA64Reg, 1, 0, AccessOf(row))>>
          [] OTHER -> ops

\* Pairs and literals keep their operands.
Fold(row, w, ops) ==
    IF /\ row.cls \in {"LOAD", "STORE"} \/ IsPrefetch(row)
       /\ ~HasBits(w, <<14848, 0>>, <<10240, 0>>)
    THEN MemoryForms(row, w, ops) ELSE ops

(***************************************************************************)
(* Words no record fits.                                                   *)
(***************************************************************************)
A64Inst(id, mnemonic, cls, ops, size, address) ==
    [id |-> id, mnemonic |-> mnemonic, cls |-> cls, ops |-> ops, size |-> size,
     address |-> address]
NoA64Inst == A64Inst("none", "none", "OTHER", <<>>, 0, 0)

BranchTo(w, first, bits, address) ==
    LET disp == 4 * Signed(WordField(w, first, bits), bits)
    IN  A64PcRel(disp, address + disp, bits)

Rt(w, width) == A64RegOperand(A64Gpr(WordField(w, 0, 5), width, FALSE), width)

LiteralRt(w) ==
    LET opc  == WordField(w, 30, 2)
        simd == CASE opc = 0 -> 32 [] opc = 1 -> 64 [] OTHER -> 128
    IN  IF 26 \in w THEN A64RegOperand(<<"SIMD", WordField(w, 0, 5), simd>>, simd)
        ELSE Rt(w, IF opc = 0 THEN 32 ELSE 64)

\* Forms by their fixed bits, in order.
ByHand(w, address) ==
    LET Inst(id, name, cls, ops) == A64Inst(id, name, cls, ops, 4, address)
        adr == Signed(WordField(w, 29, 2) + 4 * WordField(w, 5, 19), 21)
        bit == WordField(w, 19, 5) + IF 31 \in w THEN 32 ELSE 0
        page == adr * Pow2(A64PageBits)
    IN  CASE HasBits(w, <<64512, 0>>, <<5120, 0>>) ->
                Inst("A64_B", "b", "DIRECT_BRANCH", <<BranchTo(w, 0, 26, address)>>)
          [] HasBits(w, <<64512, 0>>, <<37888, 0>>) ->
                Inst("A64_BL", "bl", "DIRECT_CALL", <<BranchTo(w, 0, 26, address)>>)
          [] HasBits(w, <<65280, 16>>, <<21504, 0>>) ->
                Inst("A64_B_COND", "b", "COND_BRANCH",
                     <<A64Imm(WordField(w, 0, 4), 4), BranchTo(w, 5, 19, address)>>)
          [] HasBits(w, <<32256, 0>>, <<13312, 0>>) ->
                Inst(IF 24 \in w THEN "A64_CBNZ" ELSE "A64_CBZ",
                     IF 24 \in w THEN "cbnz" ELSE "cbz", "COND_BRANCH",
                     <<Rt(w, IF 31 \in w THEN 64 ELSE 32), BranchTo(w, 5, 19, address)>>)
          [] HasBits(w, <<32256, 0>>, <<13824, 0>>) ->
                Inst(IF 24 \in w THEN "A64_TBNZ" ELSE "A64_TBZ",
                     IF 24 \in w THEN "tbnz" ELSE "tbz", "COND_BRANCH",
                     <<Rt(w, IF bit >= 32 THEN 64 ELSE 32), A64Imm(bit, 6),
                       BranchTo(w, 5, 14, address)>>)
          [] HasBits(w, <<40704, 0>>, <<36864, 0>>) ->
                Inst("A64_ADRP", "adrp", "ALU",
                     <<Rt(w, 64), A64PcRel(page, PageOf(address) + page, 21)>>)
          [] HasBits(w, <<40704, 0>>, <<4096, 0>>) ->
                Inst("A64_ADR", "adr", "ALU", <<Rt(w, 64), A64PcRel(adr, address + adr, 21)>>)
          [] HasBits(w, <<15104, 0>>, <<6144, 0>>) ->
                Inst("A64_LDR_LITERAL", "ldr", "LOAD", <<LiteralRt(w), BranchTo(w, 5, 19, address)>>)
          [] HasBits(w, <<65280, 0>>, <<55296, 0>>) ->
                Inst("A64_PRFM_LITERAL", "prfm", "HINT",
                     <<A64Opaque(WordField(w, 0, 5), 5), BranchTo(w, 5, 19, address)>>)
          [] HasBits(w, <<65535, 64543>>, <<54815, 0>>) ->
                Inst("A64_BR", "br", "INDIRECT_BRANCH", <<>>)
          [] HasBits(w, <<65535, 64543>>, <<54847, 0>>) ->
                Inst("A64_BLR", "blr", "INDIRECT_CALL", <<>>)
          [] HasBits(w, <<65535, 64543>>, <<54879, 0>>) ->
                Inst("A64_RET", "ret", "RETURN", <<>>)
          [] HasBits(w, <<65535, 61440>>, <<54531, 8192>>) -> Inst("A64_PAC", "pac", "PAC", <<>>)
          [] OTHER -> Inst("A64_OTHER", "other", "OTHER", <<>>)

(***************************************************************************)
(* The decoder.                                                            *)
(***************************************************************************)
BtiWords == {A64Bits(<<54531, lo>>) : lo \in {9247, 9311, 9375, 9439}}

FinishFound(row, w, address) ==
    LET options == A64Operands(row, w, address)
        ops     == [k \in DOMAIN row.ops |-> CHOOSE op \in options[k] : TRUE]
    IN  A64Inst(row.id, row.mnemonic, row.cls, Fold(row, w, ops), 4, address)

A64LookUp(f, w, address, fits) ==
    LET free == {i \in fits : FeaturesMatch(f, A64Records[i])}
    IN  IF free # {} THEN Decoding("OK", FinishFound(A64Records[A64Best(free)], w, address))
        ELSE IF fits # {} THEN Decoding("UNSUPPORTED_FEATURE", NoA64Inst)
        ELSE Decoding("OK", ByHand(w, address))

A64Decode(f, w, n, address) ==
    IF n < 4 THEN Decoding("DECODE_FAILED", NoA64Inst)
    ELSE IF w \notin BtiWords
         THEN A64LookUp(f, w, address, {i \in DOMAIN A64Records : A64Fits(f, A64Records[i], w)})
    ELSE IF "branchtargetid" \notin f THEN Decoding("UNSUPPORTED_FEATURE", NoA64Inst)
    ELSE Decoding("OK", A64Inst("A64_BTI", "bti", "BTI", <<A64Imm(WordField(w, 5, 7), 7)>>,
                                4, address))
=============================================================================
