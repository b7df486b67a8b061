----------------------------- MODULE X86Encode ------------------------------
(***************************************************************************)
(* The x86 encoder: every record that has the identity and the operands of *)
(* the instruction is tried until one can be written.                      *)
(***************************************************************************)
EXTENDS X86Decode

(***************************************************************************)
(* Registers as the encoder writes them.                                   *)
(***************************************************************************)
NoValue == [ok |-> FALSE, n |-> 0, needs |-> FALSE, forbids |-> FALSE]

IsGpr(reg) == reg[1] \in {"GPR", "HIGH"}

InClass(reg, class, width) ==
    CASE class = "GPR"  -> IsGpr(reg) /\ width \in {0, reg[3]}
      [] class = "NONE" -> width \in {0, reg[3]}
      [] OTHER          -> reg[1] = class

\* An operand without a register is taken for register 0 of its class.
RegValue(reg, width, class) ==
    IF reg = NoX86Reg
    THEN [NoValue EXCEPT !.ok = class = "GPR"]
    ELSE [ok |-> InClass(reg, class, width), n |-> reg[2],
          needs |-> reg[3] = 8 /\ reg[1] = "GPR" /\ reg[2] \in 4..31,
          forbids |-> reg[1] = "HIGH"]

WidthAccepted(expected, width) == expected = 0 \/ width = 0 \/ expected = width

OperandValue(op, spec, mode) ==
    LET v == RegValue(op.reg, spec.width, spec.class)
    IN  IF op.kind = "OPAQUE" /\ spec.class = "TILE"
        THEN [NoValue EXCEPT !.ok = WidthAccepted(spec.width, op.width) /\ op.imm \in 0..7,
                             !.n = op.imm]
        ELSE [v EXCEPT !.ok = /\ op.kind = "REG"
                              /\ WidthAccepted(ContainerWidth(spec.width, spec.class), op.width)
                              /\ v.ok
                              /\ mode # "x86_64" => v.n < 8 /\ ~v.needs]

\* Bits 3 and 4 of a register number.
RexBit(v)  == Bit(v.n, 3)
HighBit(v) == Bit(v.n, 4)

(***************************************************************************)
(* ModRM, SIB and displacement of an operand.                              *)
(***************************************************************************)
Rm(modrm, sib, disp, size) ==
    [ok |-> TRUE, modrm |-> modrm, sib |-> sib, disp |-> disp, dispSize |-> size,
     x |-> FALSE, b |-> FALSE, needs |-> FALSE, forbids |-> FALSE, prefixes |-> <<>>]

NoRm == [Rm(0, -1, 0, 0) EXCEPT !.ok = FALSE]

RmOfRegister(op, spec, mode) ==
    LET v == OperandValue(op, spec, mode)
    IN  [Rm(192 + (v.n % 8), -1, 0, 0)
         EXCEPT !.ok = v.ok /\ ~HighBit(v), !.b = RexBit(v), !.needs = v.needs,
                !.forbids = v.forbids]

\* Base and index of the sixteen-bit forms, in either order.
Pair16(base, index) ==
    LET one == IF base = NoX86Reg THEN index ELSE base
        two == IF base = NoX86Reg THEN NoX86Reg ELSE index
        swap == one \in {Gpr(6, 16), Gpr(7, 16)} /\ two \in {Gpr(3, 16), Gpr(5, 16)}
    IN  IF swap THEN <<two, one>> ELSE <<one, two>>

Rm16(op) ==
    LET pair == Pair16(op.base, op.index)
        rms  == {k \in 0..7 : pair = <<Reg16(Bases16[k + 1]), Reg16(Indexes16[k + 1])>>}
        rm   == LeastOf(rms)
        size == CASE op.disp = 0 /\ rm # 6      -> 0
                  [] FitsSigned(op.disp, DataBits) -> 1
                  [] OTHER                         -> 2
    IN  IF op.scale \notin {0, 1} THEN NoRm
        ELSE IF op.base = NoX86Reg /\ op.index = NoX86Reg
             THEN [Rm(6, -1, op.disp, 2)
                   EXCEPT !.ok = FitsUnsigned(op.disp, 2 * DataBits)]
        ELSE IF rms = {} THEN NoRm
        ELSE [Rm(64 * size + rm, -1, op.disp, size)
              EXCEPT !.ok = FitsSigned(op.disp, 2 * DataBits)]

EffectiveWidth(op, mode) == IF op.aw # 0 THEN op.aw ELSE DefaultAddress[mode]
OverrideWidth == [x86_16 |-> 32, x86_32 |-> 16, x86_64 |-> 32]
ScaleOf(op)   == IF op.scale = 0 THEN 1 ELSE op.scale
ScaleBits     == [s \in {1, 2, 4, 8} |-> CASE s = 1 -> 0 [] s = 2 -> 1 [] s = 4 -> 2 [] OTHER -> 3]

AddressOk(v, mode) == v.ok /\ ~HighBit(v) /\ (mode # "x86_64" => v.n < 8)

Rm32(op, mode) ==
    LET aw      == EffectiveWidth(op, mode)
        index   == RegValue(op.index, aw, "GPR")
        base    == RegValue(op.base, aw, "GPR")
        indexed == op.index # NoX86Reg
        low     == base.n % 8
        size    == CASE op.disp = 0 /\ low # 5           -> 0
                     [] FitsSigned(op.disp, DataBits)    -> 1
                     [] OTHER                            -> 4
        sib     == IF indexed THEN 64 * ScaleBits[ScaleOf(op)] + 8 * (index.n % 8) ELSE 32
        mod     == IF size = 4 THEN 2 ELSE size
    IN  IF mode = "x86_64" /\ op.base = Rip
        THEN [Rm(5, -1, op.disp, 4) EXCEPT !.ok = ~indexed]
        ELSE IF indexed /\ (~AddressOk(index, mode) \/ index.n % 8 = 4) THEN NoRm
        ELSE IF op.base = NoX86Reg
             THEN [Rm(4, sib + 5, op.disp, 4) EXCEPT !.x = indexed /\ RexBit(index)]
        ELSE IF ~AddressOk(base, mode) THEN NoRm
        ELSE [(IF indexed \/ low = 4 THEN Rm(64 * mod + 4, sib + low, op.disp, size)
               ELSE Rm(64 * mod + low, -1, op.disp, size))
              EXCEPT !.x = indexed /\ RexBit(index), !.b = RexBit(base)]

SegmentPrefix(seg) == IF seg = "none" THEN <<>> ELSE <<Segments[seg]>>

RmOfMemory(op, spec, mode) ==
    LET aw   == EffectiveWidth(op, mode)
        rm   == IF aw = 16 THEN Rm16(op) ELSE Rm32(op, mode)
        fits == /\ WidthAccepted(spec.width, op.width)
                /\ op.reg = NoX86Reg /\ op.imm = 0
                /\ ScaleOf(op) \in DOMAIN ScaleBits
                /\ FitsSigned(op.disp, 4 * DataBits)
                /\ aw \in {DefaultAddress[mode], OverrideWidth[mode]}
    IN  IF ~fits THEN NoRm
        ELSE [rm EXCEPT !.prefixes = (IF aw = OverrideWidth[mode] THEN <<103>> ELSE <<>>)
                                     \o SegmentPrefix(op.seg)]

PackRm(op, spec, mode) ==
    CASE op.kind = "MEM" -> RmOfMemory(op, spec, mode)
      [] op.kind = "REG" \/ (op.kind = "OPAQUE" /\ spec.class = "TILE") ->
            RmOfRegister(op, spec, mode)
      [] OTHER -> NoRm

(***************************************************************************)
(* Operands that are not in ModRM.                                         *)
(***************************************************************************)
StringOk(op, spec, dst, mode) ==
    LET aw == EffectiveWidth(op, mode)
    IN  /\ op.kind = "MEM" /\ WidthAccepted(spec.width, op.width)
        /\ op.index = NoX86Reg /\ op.disp = 0 /\ ScaleOf(op) = 1
        /\ op.base = StringIndex(aw, dst)
        /\ dst => op.seg \in {"none", "ES"}

ImmFits(value, size, signed) ==
    \/ size = 8
    \/ FitsSigned(value, DataBits * size)
    \/ ~signed /\ FitsUnsigned(value, DataBits * size)

MoffsOk(op, rec, mode) ==
    /\ op.kind = "MEM" /\ WidthAccepted(rec.ops[rec.rm].width, op.width)
    /\ op.base = NoX86Reg /\ op.index = NoX86Reg /\ ScaleOf(op) = 1
    /\ rec.adSize \in {0, EffectiveWidth(op, mode)}
    /\ ImmFits(op.disp, rec.immSize, FALSE)

RawSegment(rec, inst) ==
    CASE rec.form = "RAW_MEMOFFS"        -> SegmentPrefix(inst.ops[rec.rm].seg)
      [] rec.form = "RAW_STRING_SRC"     -> SegmentPrefix(inst.ops[1].seg)
      [] rec.form = "RAW_STRING_DST_SRC" -> SegmentPrefix(inst.ops[2].seg)
      [] OTHER                           -> <<>>

\* The address width the record or the memory operands ask for: 0 for none.
RequestedWidths(rec, inst) ==
    IF rec.adSize # 0 THEN {rec.adSize}
    ELSE {inst.ops[i].aw : i \in {j \in DOMAIN inst.ops : inst.ops[j].kind = "MEM"}} \ {0}

AddressWidthOk(rec, inst, mode) ==
    LET asked == RequestedWidths(rec, inst)
    IN  /\ rec.adSize # 0 =>
              \A i \in DOMAIN inst.ops : inst.ops[i].kind = "MEM" =>
                  EffectiveWidth(inst.ops[i], mode) = rec.adSize
        /\ Cardinality(asked) <= 1
        /\ asked \subseteq {DefaultAddress[mode], OverrideWidth[mode]}

RawAddress(rec, inst, mode) ==
    IF OverrideWidth[mode] \in RequestedWidths(rec, inst) THEN <<103>> ELSE <<>>

PcDisplacement(op, address, size) ==
    IF op.target # 0 \/ op.imm = 0
    THEN Signed(op.target - (address + size), X86AddrBits)
    ELSE op.imm

(***************************************************************************)
(* What a record asks of the instruction.  The four register values are    *)
(* those of the ModRM reg field, the opcode, vvvv and the immediate.       *)
(***************************************************************************)
ValueOf(rec, inst, i, mode) ==
    IF i = 0 THEN [NoValue EXCEPT !.ok = TRUE]
    ELSE OperandValue(inst.ops[i], rec.ops[i], mode)

\* The values of the operands the record names, each packed once.
Packed(rec, inst, mode) ==
    [rm     |-> IF rec.form \in RmForms THEN PackRm(inst.ops[rec.rm], rec.ops[rec.rm], mode)
                ELSE Rm(0, -1, 0, 0),
     reg    |-> ValueOf(rec, inst, IF rec.form \in RmRegForms THEN rec.reg ELSE 0, mode),
     opcode |-> ValueOf(rec, inst, IF rec.form = "ADD_REG" THEN rec.opcodeReg ELSE 0, mode),
     vvvv   |-> ValueOf(rec, inst, rec.vvvv, mode),
     imm    |-> ValueOf(rec, inst, rec.immReg, mode),
     mask   |-> IF rec.mask = 0 THEN NoValue
                ELSE OperandValue(inst.ops[rec.mask],
                                  [rec.ops[rec.mask] EXCEPT !.class = "MASK"], mode)]

FormOk(rec, inst, p, mode) ==
    CASE rec.form \in RmForms -> /\ p.rm.ok
                                 /\ p.reg.ok
                                 /\ rec.form = "MODRM_FIXED_RM" => rec.fixedReg \in 0..7
      [] rec.form = "FIXED_MODRM" -> rec.fixedModrm \in 0..255
      [] rec.form = "ADD_REG"     -> p.opcode.ok
      [] rec.form = "RAW_MEMOFFS" -> MoffsOk(inst.ops[rec.rm], rec, mode)
      [] rec.form \in DOMAIN StringRoles ->
            \A i \in DOMAIN StringRoles[rec.form] :
                StringOk(inst.ops[i], rec.ops[i], StringRoles[rec.form][i], mode)
      [] OTHER -> TRUE

FixedOk(op, reg, width) == op.kind = "REG" /\ op.reg = reg /\ WidthAccepted(width, op.width)

FixedOperandsOk(rec, inst) ==
    /\ rec.acc # 0 => FixedOk(inst.ops[rec.acc], Accumulator(rec.ops[rec.acc].width),
                              rec.ops[rec.acc].width)
    /\ rec.dx # 0 => FixedOk(inst.ops[rec.dx], Dx, 16)
    /\ rec.fixedRegOp # 0 => FixedOk(inst.ops[rec.fixedRegOp], rec.fixedId,
                                     rec.ops[rec.fixedRegOp].width)

VectorOperandsOk(rec, inst, p) ==
    /\ IF rec.vvvv # 0 THEN p.vvvv.ok ELSE ~rec.has4v
    /\ rec.immReg # 0 => /\ rec.immSize = 1
                         /\ p.imm.ok /\ p.imm.n <= 15
    /\ IF rec.mask # 0
       THEN /\ rec.vector = "EVEX"
            /\ p.mask.ok /\ p.mask.n # 0
            /\ rec.z <=> "ZEROING" \in inst.ops[rec.mask].flags
       ELSE ~rec.k /\ ~rec.z
    /\ rec.round # 0 => /\ inst.ops[rec.round].kind = "X86_ROUNDING"
                        /\ inst.ops[rec.round].imm \in 0..3
                        /\ rec.vector = "EVEX" /\ rec.b

AttributesOk(rec, inst) ==
    LET rm     == rec.form \in RmForms
        bcast  == rm /\ "BROADCAST" \in inst.ops[rec.rm].flags
        memory == rm /\ inst.ops[rec.rm].kind = "MEM"
    IN  IF rec.vector # "EVEX" THEN inst.attrs \cap {"NF", "SAE"} = {} /\ rec.round = 0
        ELSE /\ rec.nf <=> "NF" \in inst.attrs
             /\ IF ~rec.isNd /\ rec.b /\ memory THEN bcast
                ELSE /\ ~bcast
                     /\ rec.round = 0 => ((~rec.isNd /\ rec.b) <=> "SAE" \in inst.attrs)

NeedsRex(rec, p) ==
    /\ rec.vector = "NORMAL"
    /\ \/ rec.rexW \/ p.rm.b \/ p.rm.x \/ p.rm.needs
       \/ \E v \in {p.reg, p.opcode} : RexBit(v) \/ v.needs

\* ah, ch, dh and bh cannot be named beside a REX or a vector prefix.
PrefixOk(rec, inst, p, mode) ==
    LET main   == {p.reg, p.opcode}
        others == {p.vvvv, p.imm}
        high   == p.rm.forbids \/ \E v \in main : v.forbids
    IN  /\ rec.vector # "EVEX" => \A v \in main \cup others : ~HighBit(v)
        /\ ~HighBit(p.opcode)
        /\ NeedsRex(rec, p) => mode = "x86_64" /\ ~high
        /\ rec.vector # "NORMAL" => ~high /\ \A v \in others : ~v.forbids
        /\ "LOCK" \in inst.flags => /\ rec.lock /\ rec.form \in RmForms
                                    /\ inst.ops[rec.rm].kind = "MEM"

ImmediateOk(rec, inst, len) ==
    LET op == inst.ops[rec.imm]
    IN  CASE rec.form = "RAW_MEMOFFS" -> TRUE
          [] rec.immReg # 0 -> rec.imm # 0 => op.kind = "IMM" /\ op.imm \in 0..15
          [] rec.immSize = 0 -> TRUE
          [] OTHER ->
                /\ rec.imm # 0 /\ op.kind \in {"IMM", "PC_REL"}
                /\ ImmFits(IF op.kind = "PC_REL" THEN PcDisplacement(op, inst.address, len)
                           ELSE op.imm, rec.immSize, rec.immSigned)

ExtraOk(rec, inst) ==
    rec.extraImm # 0 => rec.extra # 0 /\ ImmFits(inst.ops[rec.extra].imm, rec.extraImm, FALSE)

(***************************************************************************)
(* The bytes.                                                              *)
(***************************************************************************)
Needs66(rec, mode) ==
    \/ rec.opSize = 16 /\ mode # "x86_16"
    \/ rec.opSize = 32 /\ mode = "x86_16"

LegacyPrefixes(rec, mode) ==
    (IF Needs66(rec, mode) THEN <<102>> ELSE <<>>)
    \o (IF rec.mandatory # 0 /\ ~(Needs66(rec, mode) /\ rec.mandatory = 102)
        THEN <<rec.mandatory>> ELSE <<>>)

RexByte(rec, p) ==
    64 + Flag(rec.rexW, 8) + Flag(RexBit(p.reg), 4) + Flag(p.rm.x, 2)
    + Flag(p.rm.b \/ RexBit(p.opcode), 1)

PpOf(prefix) == CHOOSE pp \in 0..3 : PrefixOfPp[pp] = prefix
VexSelector(map) == CASE map \in 1..3 -> map [] map \in 8..11 -> map - 4 [] OTHER -> 0
XopSelector(map) == IF map \in 4..6 THEN map + 4 ELSE 0
Selector(rec)    == IF rec.vector = "XOP" THEN XopSelector(rec.map) ELSE VexSelector(rec.map)

\* W, vvvv inverted and pp, which the three prefixes have in common.
VectorByte(rec, v, middle) ==
    Flag(rec.rexW, 128) + 8 * (15 - (v % 16)) + middle + PpOf(rec.mandatory)

VectorPrefix(rec, inst, p) ==
    LET v     == p.vvvv.n
        rxb   == Flag(~RexBit(p.reg), 128) + Flag(~p.rm.x, 64)
                 + Flag(~(p.rm.b \/ RexBit(p.opcode)), 32)
        round == IF rec.round # 0 THEN inst.ops[rec.round].imm ELSE rec.l + 2 * rec.l2
        aaa   == IF rec.nf /\ p.mask.n < 4 THEN p.mask.n + 4 ELSE p.mask.n
    IN  CASE rec.vector = "NORMAL" -> <<>>
          [] rec.vector = "EVEX" ->
                <<98, rxb + Flag(~HighBit(p.reg), 16) + Selector(rec),
                  VectorByte(rec, v, Flag(~rec.u, 4)),
                  Flag(rec.z, 128) + 32 * round + Flag(rec.b, 16) + Flag(v < 16, 8) + aaa>>
          [] OTHER ->
                <<IF rec.vector = "VEX" THEN 196 ELSE 143, rxb + Selector(rec),
                  VectorByte(rec, v, Flag(rec.l = 1, 4))>>

VectorOk(rec, p) ==
    rec.vector # "NORMAL" => /\ Selector(rec) # 0
                             /\ rec.vector # "EVEX" => p.vvvv.n <= 15

Escape(rec) ==
    IF rec.vector # "NORMAL" THEN <<>>
    ELSE CASE rec.map = 0 -> <<>>
           [] rec.map = 2 -> <<15, 56>>
           [] rec.map = 3 -> <<15, 58>>
           [] OTHER       -> <<15>>

ModrmBytes(rec, p) ==
    LET reg == IF rec.form \in RmRegForms THEN p.reg.n % 8 ELSE rec.fixedReg
    IN  CASE rec.form \in RmForms ->
                <<p.rm.modrm + 8 * reg>> \o (IF p.rm.sib = -1 THEN <<>> ELSE <<p.rm.sib>>)
                \o WriteLe(p.rm.disp, p.rm.dispSize)
          [] rec.form = "FIXED_MODRM" -> <<rec.fixedModrm>>
          [] OTHER -> <<>>

\* Everything before the immediates.  The 3DNow! records of the encoder have
\* 0f for their opcode and the opcode of the decoder's as suffix.
X86Head(rec, inst, p, mode) ==
    (IF "LOCK" \in inst.flags THEN <<240>> ELSE <<>>)
    \o (IF rec.vector = "NORMAL" THEN LegacyPrefixes(rec, mode) ELSE <<>>)
    \o (IF rec.form \in RmForms THEN p.rm.prefixes
        ELSE RawAddress(rec, inst, mode) \o RawSegment(rec, inst))
    \o (IF NeedsRex(rec, p) THEN <<RexByte(rec, p)>> ELSE <<>>)
    \o VectorPrefix(rec, inst, p)
    \o Escape(rec)
    \o <<IF rec.map = 7 THEN 15 ELSE rec.opcode + (p.opcode.n % 8)>>
    \o ModrmBytes(rec, p)

ImmediateBytes(rec, inst, p, len) ==
    LET op == inst.ops[rec.imm]
    IN  CASE rec.form = "RAW_MEMOFFS" -> WriteLe(inst.ops[rec.rm].disp, rec.immSize)
          [] rec.immReg # 0 -> <<16 * p.imm.n
                                 + (IF rec.imm # 0 THEN op.imm ELSE 0)>>
          [] rec.immSize = 0 -> <<>>
          [] op.kind = "PC_REL" ->
                WriteLe(PcDisplacement(op, inst.address, len), rec.immSize)
          [] OTHER -> WriteLe(op.imm, rec.immSize)

SuffixBytes(rec) == IF rec.suffix = -1 THEN <<>> ELSE <<rec.suffix>>

X86Length(rec, head) == Len(head) + rec.immSize + rec.extraImm + Len(SuffixBytes(rec))

\* Mutant of Written: the size that is asked for is one short.
WrittenOneShort(code, cap) ==
    IF cap < Len(code) THEN Encoding("OUTPUT_TOO_SMALL", Len(code) - 1, <<>>)
    ELSE Encoding("OK", Len(code), code)

Written(code, cap) ==
    IF cap < Len(code) THEN Encoding("OUTPUT_TOO_SMALL", Len(code), <<>>)
    ELSE Encoding("OK", Len(code), code)

X86Bytes(rec, inst, p, head) ==
    head \o ImmediateBytes(rec, inst, p, X86Length(rec, head))
    \o (IF rec.extraImm = 0 THEN <<>> ELSE WriteLe(inst.ops[rec.extra].imm, rec.extraImm))
    \o SuffixBytes(rec)

LengthOk(rec, inst, head) ==
    /\ ImmediateOk(rec, inst, X86Length(rec, head))
    /\ X86Length(rec, head) <= MaxBytes

X86Fits(rec, inst, p, mode) ==
    /\ mode \in rec.modes
    /\ rec.rexW => mode = "x86_64"
    /\ FormOk(rec, inst, p, mode)
    /\ FixedOperandsOk(rec, inst)
    /\ VectorOperandsOk(rec, inst, p)
    /\ AttributesOk(rec, inst)
    /\ AddressWidthOk(rec, inst, mode)
    /\ PrefixOk(rec, inst, p, mode)
    /\ VectorOk(rec, p)
    /\ ExtraOk(rec, inst)
    /\ LengthOk(rec, inst, X86Head(rec, inst, p, mode))

X86Writable(rec, inst, mode) == X86Fits(rec, inst, Packed(rec, inst, mode), mode)

X86WriteHead(rec, inst, p, mode, cap) ==
    Written(X86Bytes(rec, inst, p, X86Head(rec, inst, p, mode)), cap)

X86Write(rec, inst, mode, cap) ==
    X86WriteHead(rec, inst, Packed(rec, inst, mode), mode, cap)

(***************************************************************************)
(* Encoding.                                                               *)
(***************************************************************************)
Identity(rec, inst) ==
    LET named == inst.mnemonic # NoX86Inst.mnemonic /\ inst.mnemonic = rec.mnemonic
    IN  \/ inst.id = rec.id /\ (rec.id = "JCC_REL" => named)
        \/ inst.id = NoX86Inst.id /\ named

OperandsMatch(rec, inst) ==
    /\ Len(inst.ops) = Len(rec.ops)
    /\ \A i \in DOMAIN rec.ops : /\ inst.ops[i].kind = rec.ops[i].kind
                                 /\ WidthAccepted(rec.ops[i].width, inst.ops[i].width)

\* The first record, in the order of the encoder, that can be written.
X86Choose(table, feats, mode, inst, fits) ==
    LET free == {i \in fits : FeaturesMatch(feats, table[i])}
        able == {i \in free : X86Writable(table[i], inst, mode)}
    IN  [at |-> IF able = {} THEN 0
                ELSE X86EncodeOrder[LeastOf({k \in DOMAIN X86EncodeOrder :
                                                X86EncodeOrder[k] \in able})],
         blocked |-> free = {} /\ fits # {}]

X86EncodeFound(table, found, mode, inst, cap) ==
    IF found.at = 0 THEN Encoding(NotFound(found), 0, <<>>)
    ELSE X86Write(table[found.at], inst, mode, cap)

X86GenEncode(table, feats, mode, inst, cap) ==
    LET fits == {i \in {X86EncodeOrder[k] : k \in DOMAIN X86EncodeOrder} :
                    Identity(table[i], inst) /\ OperandsMatch(table[i], inst)}
    IN  X86EncodeFound(table, X86Choose(table, feats, mode, inst, fits), mode, inst, cap)

\* asmkit_gen_x86_emit_rel: a near jump or call, whatever the instruction was.
X86WriteRel(mode, opcode, inst, cap) ==
    LET size == IF mode = "x86_16" THEN 2 ELSE 4
        op   == inst.ops[1]
        disp == PcDisplacement(op, inst.address, size + 1)
    IN  IF ~FitsSigned(disp, DataBits * size) THEN Encoding("BRANCH_OUT_OF_RANGE", 0, <<>>)
        ELSE Written(<<opcode>> \o WriteLe(disp, size), cap)

\* The overlay has its own way with four names.
MnemonicOf(inst) ==
    CASE inst.mnemonic # NoX86Inst.mnemonic -> inst.mnemonic
      [] inst.id = "NOP" -> <<"nop", 0>>
      [] inst.id = "RET" -> <<"ret", 0>>
      [] inst.id \in {"JMP_REL", "JMP_INDIRECT"}   -> <<"jmp", 0>>
      [] inst.id \in {"CALL_REL", "CALL_INDIRECT"} -> <<"call", 0>>
      [] OTHER -> NoX86Inst.mnemonic

X86Encode(feats, mode, inst, cap) ==
    LET name == MnemonicOf(inst)
    IN  CASE name = <<"nop", 0>> -> Written(<<144>>, cap)
          [] name = <<"ret", 0>> -> Written(<<195>>, cap)
          [] /\ name \in {<<"jmp", 0>>, <<"call", 0>>}
             /\ inst.ops # <<>> /\ inst.ops[1].kind = "PC_REL" ->
                X86WriteRel(mode, IF name = <<"call", 0>> THEN 232 ELSE 233, inst, cap)
          [] OTHER -> X86GenEncode(X86Records, feats, mode, inst, cap)
=============================================================================
