----------------------------- MODULE X86Decode ------------------------------
(***************************************************************************)
(* The x86 decoder in its three modes.  Code is a sequence                 *)
(* of bytes; prefixes, opcodes, ModRM and SIB are the real bytes.  A byte  *)
(* of a displacement or an immediate has DataBits bits, 8 in the library,  *)
(* so that the longest of them stay small numbers.                         *)
(*                                                                         *)
(* A record of the table has, beside its fixed fields, the place of each   *)
(* operand that is not fixed: rm, reg, imm, ... are operand numbers, 0 for *)
(* none; fixedReg, fixedModrm and suffix are -1 for none.  The decoder     *)
(* reads the table in order, the encoder in the order X86EncodeOrder.      *)
(***************************************************************************)
EXTENDS CodecBase

CONSTANTS
    X86Records,         \* the table
    X86EncodeOrder,     \* the indices of the table as the encoder tries them
    DataBits,           \* bits of a byte of a displacement or an immediate, 8
    X86AddrBits,        \* bits of an address, 64
    MaxBytes            \* ASMKIT_X86_MAX_INSTRUCTION_BYTES, 15

ASSUME X86Assumption == {DataBits, X86AddrBits, MaxBytes} \subseteq Nat \ {0}

X86Modes == {"x86_16", "x86_32", "x86_64"}

Bit(byte, k)       == (byte \div Pow2(k)) % 2 = 1
Field(byte, k, n)  == (byte \div Pow2(k)) % Pow2(n)
Flag(b, value)     == IF b THEN value ELSE 0

(***************************************************************************)
(* Registers are <<class, number, width>>; HIGH are ah, ch, dh and bh.     *)
(***************************************************************************)
NoX86Reg == <<"none", 0, 0>>
Rip      == <<"RIP", 0, 64>>
Gpr(n, width) == <<"GPR", n, width>>

GprFromEncoding(n, width, rex) ==
    IF width \notin {8, 16, 32, 64} THEN NoX86Reg
    ELSE IF width = 8 /\ ~rex /\ n % 16 \in 4..7 THEN <<"HIGH", n % 16, 8>>
    ELSE Gpr(n % 16, width)

ClassSize ==
    [XMM |-> 32, YMM |-> 32, ZMM |-> 32, MMX |-> 8, MASK |-> 8, TILE |-> 8,
     SEGMENT |-> 6, CONTROL |-> 16, DEBUG |-> 16, X87 |-> 8]

RegisterOf(n, width, class, rex) ==
    IF class \in {"NONE", "GPR"} THEN GprFromEncoding(n, width, rex)
    ELSE IF n < ClassSize[class] THEN <<class, n, IF class = "MASK" THEN 64 ELSE width>>
    ELSE NoX86Reg

Containers == [XMM |-> 128, YMM |-> 256, ZMM |-> 512, MMX |-> 64]
ContainerWidth(width, class) ==
    IF class \in DOMAIN Containers /\ width < Containers[class]
    THEN Containers[class] ELSE width

Segments == [ES |-> 38, CS |-> 46, SS |-> 54, DS |-> 62, FS |-> 100, GS |-> 101]

DefaultAddress == [x86_16 |-> 16, x86_32 |-> 32, x86_64 |-> 64]
AddressWidth(mode, override) ==
    IF ~override THEN DefaultAddress[mode]
    ELSE IF mode = "x86_32" THEN 16 ELSE 32

StringIndex(width, dst) == Gpr(IF dst THEN 7 ELSE 6, width)

(***************************************************************************)
(* Operands and instructions.                                              *)
(***************************************************************************)
X86Operand(kind, width) ==
    [kind |-> kind, reg |-> NoX86Reg, imm |-> 0, target |-> 0, base |-> NoX86Reg,
     index |-> NoX86Reg, scale |-> 0, disp |-> 0, aw |-> 0, seg |-> "none",
     width |-> width, flags |-> {}]

X86Reg(reg, width) == [X86Operand("REG", width) EXCEPT !.reg = reg]
X86Imm(imm, width) == [X86Operand("IMM", width) EXCEPT !.imm = imm]
X86Mem(base, index, scale, disp, width, aw, seg) ==
    [X86Operand("MEM", width) EXCEPT !.base = base, !.index = index, !.scale = scale,
                                     !.disp = disp, !.aw = aw, !.seg = seg]
X86PcRel(imm, width, next) ==
    [X86Operand("PC_REL", width) EXCEPT !.imm = imm,
                                        !.target = Wrap(next + imm, X86AddrBits)]

X86Inst(id, mnemonic, cls, flags, ops, size, address) ==
    [id |-> id, mnemonic |-> mnemonic, cls |-> cls, flags |-> flags, attrs |-> {},
     ops |-> ops, size |-> size, address |-> address]

NoX86Inst == X86Inst("none", <<"none", 0>>, "OTHER", {}, <<>>, 0, 0)

(***************************************************************************)
(* Numbers in code: `n' bytes from offset `off'.                           *)
(***************************************************************************)
ReadLe(code, off, n) ==
    LET sum[k \in 0..n] ==
            IF k = 0 THEN 0
            ELSE sum[k - 1] + (code[off + k] % Pow2(DataBits)) * Pow2(DataBits * (k - 1))
    IN  sum[n]

ReadSigned(code, off, n)      == Signed(ReadLe(code, off, n), DataBits * n)
ReadInteger(code, off, n, sg) == IF sg THEN ReadSigned(code, off, n)
                                 ELSE ReadLe(code, off, n)

WriteLe(value, n) ==
    [k \in 1..n |-> (value \div Pow2(DataBits * (k - 1))) % Pow2(DataBits)]

(***************************************************************************)
(* Prefixes.  The scan ends at the first byte that is none.                *)
(***************************************************************************)
Legacy == {240, 242, 243, 102, 103} \cup {Segments[s] : s \in DOMAIN Segments}

NoVector == [kind |-> "NORMAL", w |-> FALSE, l |-> 0, l2 |-> 0, pp |-> 0, vvvv |-> 0,
             aaa |-> 0, z |-> FALSE, b |-> FALSE, nf |-> FALSE, u |-> FALSE]

Unprefixed(mode) ==
    [at |-> 0, more |-> TRUE, op16 |-> mode = "x86_16", ad |-> FALSE, lock |-> FALSE,
     f2 |-> FALSE, f3 |-> FALSE, p66 |-> FALSE, mandatory |-> 0, seg |-> "none",
     rex |-> FALSE, w |-> FALSE, r |-> 0, x |-> 0, b |-> 0, high |-> 0,
     ok |-> FALSE, map |-> 0, opcode |-> 0, next |-> 0, vec |-> NoVector]

TakeLegacy(p, byte, mode) ==
    CASE byte = 102 -> [p EXCEPT !.op16 = mode # "x86_16", !.p66 = TRUE, !.mandatory = 102]
      [] byte = 103 -> [p EXCEPT !.ad = TRUE]
      [] byte = 240 -> [p EXCEPT !.lock = TRUE]
      [] byte = 242 -> [p EXCEPT !.f2 = TRUE, !.mandatory = 242]
      [] byte = 243 -> [p EXCEPT !.f3 = TRUE, !.mandatory = 243]
      [] OTHER      -> [p EXCEPT !.seg = CHOOSE s \in DOMAIN Segments : Segments[s] = byte]

TakeRex(p, byte) ==
    [p EXCEPT !.rex = TRUE, !.w = Bit(byte, 3), !.r = Flag(Bit(byte, 2), 8),
              !.x = Flag(Bit(byte, 1), 8), !.b = Flag(Bit(byte, 0), 8)]

TakePrefix(p, code, mode) ==
    LET byte == code[p.at + 1]
    IN  IF ~p.more \/ p.at >= Len(code) \/ p.at >= MaxBytes THEN [p EXCEPT !.more = FALSE]
        ELSE IF byte \in Legacy THEN [TakeLegacy(p, byte, mode) EXCEPT !.at = @ + 1]
        ELSE IF mode = "x86_64" /\ byte \in 64..79
             THEN [TakeRex(p, byte) EXCEPT !.at = @ + 1]
        ELSE IF mode = "x86_64" /\ byte = 213 /\ p.at + 1 < Len(code)
             THEN [TakeRex(p, code[p.at + 2]) EXCEPT !.at = @ + 2]
        ELSE [p EXCEPT !.more = FALSE]

Prefixes(code, mode) ==
    LET scan[n \in 0..(Len(code) + 1)] ==
            IF n = 0 THEN Unprefixed(mode) ELSE TakePrefix(scan[n - 1], code, mode)
    IN  scan[Len(code) + 1]

(***************************************************************************)
(* Vector prefixes and opcodes: the state after them, `ok' false when the  *)
(* code ends too early or the map does not exist.                          *)
(***************************************************************************)
NoMap == 255
VexMap(sel) == CASE sel \in 1..3 -> sel [] sel \in 4..7 -> sel + 4 [] OTHER -> NoMap
XopMap(sel) == IF sel \in 8..10 THEN sel - 4 ELSE NoMap
PrefixOfPp  == [pp \in 0..3 |-> <<0, 102, 243, 242>>[pp + 1]]

\* R, X and B of a vector prefix are stored inverted.
Inverted(byte, k, value) == Flag(~Bit(byte, k), value)

EvexVector(b2, b3) ==
    [kind |-> "EVEX", w |-> Bit(b2, 7), l |-> Field(b3, 5, 1), l2 |-> Field(b3, 6, 1),
     pp |-> b2 % 4, vvvv |-> Inverted(b3, 3, 16) + 15 - Field(b2, 3, 4),
     aaa |-> b3 % 8, z |-> Bit(b3, 7), b |-> Bit(b3, 4), nf |-> Bit(b3, 2),
     u |-> ~Bit(b2, 2)]

VexVector(kind, byte, w) ==
    [NoVector EXCEPT !.kind = kind, !.w = w, !.l = Field(byte, 2, 1), !.pp = byte % 4,
                     !.vvvv = 15 - Field(byte, 3, 4)]

Context(p, map, opcode, at, vec) ==
    [p EXCEPT !.ok = map # NoMap, !.map = map, !.opcode = opcode, !.next = at,
              !.vec = vec]

ExtendBy(c, b1, w) ==
    [c EXCEPT !.rex = TRUE, !.w = w, !.r = Inverted(b1, 7, 8), !.x = Inverted(b1, 6, 8),
              !.b = Inverted(b1, 5, 8)]

OpcodeOf(p, code, mode) ==
    LET i  == p.at
        n  == Len(code)
        op == code[i + 1]
        b1 == code[i + 2]
        b2 == code[i + 3]
        b3 == code[i + 4]
        long == mode = "x86_64" \/ (i + 1 < n /\ b1 >= 192)
        xop  == i + 1 < n /\ Field(b1, 3, 3) # 0
        need == CASE op = 98 /\ long  -> 5
                  [] op = 196 /\ long -> 4
                  [] op = 197 /\ long -> 3
                  [] op = 143 /\ xop  -> 4
                  [] OTHER            -> 1
    IN  IF i + need > n THEN p
        ELSE IF op = 98 /\ long
             THEN [ExtendBy(Context(p, VexMap(b1 % 8), code[i + 5], i + 5, EvexVector(b2, b3)),
                            b1, Bit(b2, 7))
                   EXCEPT !.r = @ + Inverted(b1, 4, 16), !.high = Inverted(b1, 6, 16)]
        ELSE IF op = 196 /\ long
             THEN ExtendBy(Context(p, VexMap(b1 % 32), code[i + 4], i + 4,
                                   VexVector("VEX", b2, Bit(b2, 7))), b1, Bit(b2, 7))
        ELSE IF op = 197 /\ long
             THEN [Context(p, 1, code[i + 3], i + 3, VexVector("VEX", b1, FALSE))
                   EXCEPT !.rex = TRUE, !.r = Inverted(b1, 7, 8)]
        ELSE IF op = 143 /\ xop
             THEN ExtendBy(Context(p, XopMap(b1 % 32), code[i + 4], i + 4,
                                   VexVector("XOP", b2, Bit(b2, 7))), b1, Bit(b2, 7))
        ELSE IF op # 15 THEN Context(p, 0, op, i + 1, NoVector)
        ELSE IF i + 1 >= n THEN p
        ELSE IF b1 \notin {56, 58} THEN Context(p, 1, b1, i + 2, NoVector)
        ELSE IF i + 2 >= n THEN p
        ELSE Context(p, IF b1 = 56 THEN 2 ELSE 3, b2, i + 3, NoVector)
(***************************************************************************)
(* The table.  A record is tried when it belongs to the bucket of the map, *)
(* the opcode, the mode and the class of the ModRM byte (-1: none read).   *)
(***************************************************************************)
Opcodes(rec) == rec.opcode..(rec.opcode + rec.plus)

ModrmMatches(rec, modrm) ==
    CASE rec.modrm = "NONE"  -> modrm = -1
      [] rec.modrm = "FIXED" -> modrm = rec.fixedModrm
      [] OTHER -> /\ modrm # -1
                  /\ rec.fixedReg \in {-1, Field(modrm, 3, 3)}
                  /\ rec.modrm = "REG" => modrm >= 192
                  /\ rec.modrm = "MEM" => modrm < 192

InBucket(rec, c, mode) ==
    rec.map = c.map /\ c.opcode \in Opcodes(rec) /\ mode \in rec.modes

LengthMatches(rec, vec) ==
    \/ rec.round # 0 \/ rec.ignoresL
    \/ /\ rec.l2 = vec.l2
       /\ rec.l = vec.l \/ (rec.vector = "EVEX" /\ rec.l2 # 0 /\ vec.l # 0)

EvexMatches(rec, vec) ==
    /\ CASE rec.k       -> vec.aaa # 0 \/ rec.z
         [] rec.usesAaa -> TRUE
         [] rec.nf      -> vec.aaa >= 4
         [] OTHER       -> vec.aaa = 0
    /\ rec.z = vec.z /\ rec.b = vec.b
    /\ rec.nf => vec.nf
    /\ rec.u => vec.u

VectorMatches(rec, c, mode, w) ==
    IF rec.vector = "NORMAL"
    THEN /\ rec.rexW => mode = "x86_64" /\ w
         /\ rec.ignoresW \/ rec.rexW \/ ~w \/ rec.opSize = 0
    ELSE /\ rec.vector = c.vec.kind
         /\ rec.ignoresW \/ rec.rexW = w
         /\ LengthMatches(rec, c.vec)
         /\ rec.has4v \/ c.vec.vvvv % 16 = 0
         /\ rec.vector = "EVEX" => EvexMatches(rec, c.vec)

SizeMatches(rec, c, mode) ==
    /\ rec.opSize = 16 => c.op16
    /\ rec.opSize = 32 => ~c.op16
    /\ rec.adSize \in {0, AddressWidth(mode, c.ad)}

\* ret and the string instructions take a rep prefix, the x87 escapes ignore it.
Repeatable == (108..111) \cup (164..167) \cup (170..175)
RedundantRep(map, opcode) ==
    map = 0 /\ opcode \in Repeatable \cup {194, 195, 202, 203}

PrefixMatches(rec, c, fallback) ==
    IF rec.vector # "NORMAL"
    THEN rec.vector = c.vec.kind /\ PrefixOfPp[c.vec.pp] = rec.mandatory
    ELSE /\ c.vec.kind = "NORMAL"
         /\ CASE rec.mandatory = 102 -> c.mandatory = 102
              [] rec.mandatory = 242 -> IF rec.opSize = 0 THEN c.mandatory = 242 ELSE c.f2
              [] rec.mandatory = 243 -> IF rec.opSize = 0 THEN c.mandatory = 243 ELSE c.f3
              [] OTHER -> \/ (c.f2 \/ c.f3) /\ RedundantRep(rec.map, rec.opcode)
                          \/ (c.f2 \/ c.f3) /\ rec.map = 0 /\ rec.opcode \in 216..223
                          \/ rec.hle \/ c.mandatory \in {0, 102} \/ fallback

Candidate(rec, c, mode, w, fallback) ==
    /\ InBucket(rec, c, mode)
    /\ VectorMatches(rec, c, mode, w)
    /\ SizeMatches(rec, c, mode)
    /\ PrefixMatches(rec, c, fallback)

FindExact(table, feats, c, mode, modrm, w, fallback) ==
    Search(table, feats,
           LAMBDA rec : Candidate(rec, c, mode, w, fallback) /\ ModrmMatches(rec, modrm)).at

\* Outside 64-bit mode W of a vector prefix may say nothing.
WFallback(c, mode) == mode # "x86_64" /\ c.vec.kind # "NORMAL" /\ c.vec.w /\ c.w

NarrowFrom(wide, table, feats, c, mode, modrm, fallback) ==
    IF ~WFallback(c, mode) \/ (wide # 0 /\ ~table[wide].name64) THEN wide
    ELSE FindExact(table, feats, c, mode, modrm, FALSE, fallback)

FindRecord(table, feats, c, mode, modrm, fallback) ==
    NarrowFrom(FindExact(table, feats, c, mode, modrm, c.w, fallback),
               table, feats, c, mode, modrm, fallback)

AllNeeds(table) == UNION {table[i].needs : i \in DOMAIN table}

\* First without and then with the records that ignore a prefix of the code;
\* a record only the features rule out ends the search.
FindLoose(loose, table, feats, c, mode, modrm) ==
    [at |-> loose,
     blocked |-> /\ loose = 0
                 /\ FindRecord(table, feats \cup AllNeeds(table), c, mode, modrm, TRUE) # 0]

FindStrict(strict, table, feats, c, mode, modrm) ==
    IF strict # 0 THEN [at |-> strict, blocked |-> FALSE]
    ELSE IF FindRecord(table, feats \cup AllNeeds(table), c, mode, modrm, FALSE) # 0
         THEN [at |-> 0, blocked |-> TRUE]
    ELSE FindLoose(FindRecord(table, feats, c, mode, modrm, TRUE),
                   table, feats, c, mode, modrm)

FindAllowed(table, feats, c, mode, modrm) ==
    FindStrict(FindRecord(table, feats, c, mode, modrm, FALSE),
               table, feats, c, mode, modrm)

MayHaveModrm(table, c, mode) ==
    \E i \in DOMAIN table :
        LET rec == table[i]
        IN  /\ rec.modrm # "NONE"
            /\ IF WFallback(c, mode)
               THEN \/ Candidate(rec, c, mode, FALSE, TRUE)
                    \/ ~rec.name64 /\ Candidate(rec, c, mode, TRUE, TRUE)
               ELSE Candidate(rec, c, mode, c.w, TRUE)

\* The opcodes taken to have a ModRM byte when no record says so.
GenericModrm(c) ==
    \/ c.vec.kind # "NORMAL" \/ c.map > 1
    \/ /\ c.map = 0
       /\ c.opcode \in (0..63) \cup {98, 99, 105, 107} \cup (128..143) \cup {192, 193}
                       \cup (196..199) \cup (208..211) \cup (216..223)
                       \cup {246, 247, 254, 255}
    \/ /\ c.map = 1
       /\ c.opcode \notin (128..143) \cup {5, 7, 11, 14, 49, 50, 51, 52, 53, 119, 160,
                                           161, 162, 168, 169}

(***************************************************************************)
(* The ModRM byte with what follows it: the SIB byte (-1 for none) and the *)
(* place and size of the displacement.                                     *)
(***************************************************************************)
X86Modrm(c, code, mode) ==
    LET at   == c.next
        byte == code[at + 1]
        mod  == byte \div 64
        rm   == byte % 8
        aw   == AddressWidth(mode, c.ad)
        sib  == aw # 16 /\ rm = 4 /\ mod # 3
        base == IF sib THEN code[at + 2] % 8 ELSE rm
        bare == mod = 0 /\ base = (IF aw = 16 THEN 6 ELSE 5)
        wide == IF aw = 16 THEN 2 ELSE 4
        size == CASE bare -> wide [] mod = 1 -> 1 [] mod = 2 -> wide [] OTHER -> 0
        off  == at + (IF sib THEN 2 ELSE 1)
    IN  IF at >= Len(code) \/ (sib /\ at + 1 >= Len(code)) THEN [ok |-> FALSE]
        ELSE [ok |-> TRUE, byte |-> byte, mod |-> mod, reg |-> Field(byte, 3, 3),
              rm |-> rm, sib |-> IF sib THEN code[at + 2] ELSE -1, noBase |-> bare,
              pcRel |-> bare /\ ~sib /\ mode = "x86_64" /\ aw = 64, aw |-> aw,
              dispOff |-> off, dispSize |-> size, next |-> off + size]

NoModrm == [byte |-> -1, mod |-> 0, reg |-> 0, rm |-> 0, sib |-> -1, noBase |-> FALSE,
            pcRel |-> FALSE, aw |-> 0, dispOff |-> 0, dispSize |-> 0, next |-> 0]

\* An eight-bit displacement of an EVEX instruction counts operands.
EvexScale(rec) ==
    IF rec.rm # 0 /\ rec.ops[rec.rm].kind = "MEM" /\ rec.ops[rec.rm].width >= 8
    THEN rec.ops[rec.rm].width \div 8 ELSE 1

Displacement(c, m, code, scale) ==
    IF m.dispSize = 0 THEN 0
    ELSE ReadSigned(code, m.dispOff, m.dispSize)
         * (IF c.vec.kind = "EVEX" /\ m.dispSize = 1 THEN scale ELSE 1)

(***************************************************************************)
(* Operands.  `e' is what the decoder knows: the prefixes c, the ModRM     *)
(* byte m, the displacement, the code, the offset of the immediates, their *)
(* size, the mode, the address and the length.                             *)
(***************************************************************************)
EncodedOperand(spec, n, rex, mode) ==
    LET short == CASE spec.class = "SEGMENT" /\ spec.width = 0 -> 16
                   [] /\ spec.class \in {"NONE", "GPR"}
                      /\ spec.width = 64 /\ mode # "x86_64" -> IF mode = "x86_16" THEN 16 ELSE 32
                   [] OTHER -> spec.width
        width == IF spec.kind = "REG" THEN ContainerWidth(short, spec.class) ELSE short
        reg   == RegisterOf(n, width, spec.class, rex)
    IN  IF spec.kind = "OPAQUE" /\ spec.class = "TILE"
        THEN [X86Operand("OPAQUE", spec.width) EXCEPT !.imm = Flag(n <= 7, n)]
        ELSE IF reg = NoX86Reg THEN X86Operand(spec.kind, spec.width)
        ELSE X86Reg(reg, width)

Bases16   == <<3, 3, 5, 5, 6, 7, 5, 3>>
Indexes16 == <<6, 7, 6, 7, -1, -1, -1, -1>>
Reg16(n)  == IF n = -1 THEN NoX86Reg ELSE Gpr(n, 16)

RmMemory(e, width) ==
    LET m     == e.m
        gpr(n) == GprFromEncoding(n, m.aw, TRUE)
        index == Field(m.sib, 3, 3) + e.c.x
        base  == CASE m.aw = 16 -> IF m.noBase THEN NoX86Reg ELSE Reg16(Bases16[m.rm + 1])
                   [] m.pcRel   -> Rip
                   [] m.noBase  -> NoX86Reg
                   [] OTHER     -> gpr((IF m.sib = -1 THEN m.rm ELSE m.sib % 8) + e.c.b)
        indexed == m.aw # 16 /\ m.sib # -1 /\ index # 4
    IN  [X86Mem(base,
                CASE m.aw = 16 -> Reg16(Indexes16[m.rm + 1])
                  [] indexed   -> gpr(index)
                  [] OTHER     -> NoX86Reg,
                IF indexed THEN Pow2(m.sib \div 64) ELSE 1,
                e.disp, width, m.aw, e.c.seg)
         EXCEPT !.target = IF m.pcRel THEN Wrap(e.address + e.len + e.disp, X86AddrBits)
                           ELSE 0]

RmOperand(e, spec) ==
    IF e.m.mod = 3
    THEN EncodedOperand(spec, e.m.rm + e.c.b + e.c.high,
                        e.c.rex, e.mode)
    ELSE RmMemory(e, spec.width)

Accumulator(width) == IF width \in {8, 16, 32, 64} THEN Gpr(0, width) ELSE NoX86Reg
Dx == Gpr(2, 16)
Cl == Gpr(1, 8)

FixedReg(spec, reg, width) ==
    IF reg = NoX86Reg THEN X86Operand(spec.kind, spec.width) ELSE X86Reg(reg, width)

ImmOperand(rec, spec, e, off, size) ==
    LET imm   == ReadInteger(e.code, off, size, rec.signed)
        width == IF spec.width # 0 THEN spec.width ELSE size * 8
    IN  CASE size = 0  -> X86Operand(spec.kind, spec.width)
          [] rec.pcRel -> X86PcRel(imm, width, e.address + e.len)
          [] OTHER     -> X86Imm(imm, width)

StringOperand(e, spec, dst) ==
    LET aw == AddressWidth(e.mode, e.c.ad)
    IN  X86Mem(StringIndex(aw, dst), NoX86Reg, 1, 0, spec.width, aw,
               IF dst THEN "ES" ELSE e.c.seg)

\* The operand numbers that are memory written (dst) and read by a string form.
StringRoles ==
    [RAW_STRING_SRC |-> <<FALSE>>, RAW_STRING_DST |-> <<TRUE>>,
     RAW_STRING_DST_SRC |-> <<TRUE, FALSE>>]

RmForms    == {"MODRM_RM_REG", "MODRM_REG_RM", "MODRM_FIXED_RM"}
RmRegForms == RmForms \ {"MODRM_FIXED_RM"}

RoundControl(c) == (c.vec.l + 2 * c.vec.l2) % 4

\* Where an operand has two roles the one named first here is kept.
X86RoleOperand(rec, i, e) ==
    LET spec == rec.ops[i]
        byte == e.code[e.immOff + 1]
        packed == rec.immReg # 0 /\ rec.immSize # 0
    IN  CASE i = rec.extra -> ImmOperand(rec, spec, e, e.immOff + rec.immSize, rec.extraImm)
          [] i = rec.imm /\ packed -> X86Imm(byte % 16, spec.width)
          [] i = rec.imm -> ImmOperand(rec, spec, e, e.immOff, rec.immSize)
          [] i = rec.immReg /\ packed -> EncodedOperand(spec, byte \div 16, TRUE, e.mode)
          [] i = rec.round -> [X86Operand("X86_ROUNDING", 2) EXCEPT !.imm = RoundControl(e.c)]
          [] i = rec.mask ->
                [EncodedOperand([spec EXCEPT !.class = "MASK"], e.c.vec.aaa, TRUE, e.mode)
                 EXCEPT !.flags = IF rec.z THEN {"ZEROING"} ELSE {}]
          [] i = rec.vvvv -> EncodedOperand(spec, e.c.vec.vvvv, TRUE, e.mode)
          [] i = rec.fixedRegOp ->
                FixedReg(spec, rec.fixedId,
                         IF spec.width = 0 /\ spec.class = "SEGMENT" THEN 16 ELSE spec.width)
          [] i = rec.dx  -> X86Reg(Dx, 16)
          [] i = rec.acc -> FixedReg(spec, Accumulator(spec.width), spec.width)
          [] rec.form \in DOMAIN StringRoles /\ i <= Len(StringRoles[rec.form]) ->
                StringOperand(e, spec, StringRoles[rec.form][i])
          [] rec.form = "RAW_MEMOFFS" /\ i = rec.rm /\ rec.immSize # 0 ->
                X86Mem(NoX86Reg, NoX86Reg, 1, ReadLe(e.code, e.immOff, rec.immSize),
                       spec.width, AddressWidth(e.mode, e.c.ad), e.c.seg)
          [] rec.form = "ADD_REG" /\ i = rec.opcodeReg ->
                EncodedOperand(spec, (e.c.opcode % 8) + e.c.b, e.c.rex, e.mode)
          [] rec.form \in RmRegForms /\ i = rec.reg ->
                EncodedOperand(spec, e.m.reg + e.c.r, e.c.rex, e.mode)
          [] rec.form \in RmForms /\ i = rec.rm -> RmOperand(e, spec)
          [] OTHER -> X86Operand(spec.kind, spec.width)

ShiftCount(rec, c) ==
    IF rec.map = 0 /\ c.opcode \in 208..211 /\ rec.fixedReg >= 0
    THEN IF c.opcode \in {208, 209} THEN <<X86Imm(1, 0)>> ELSE <<X86Reg(Cl, 8)>>
    ELSE <<>>

Broadcasts(rec, ops) == rec.b /\ ~rec.isNd /\ rec.rm # 0 /\ ops[rec.rm].kind = "MEM"

MarkBroadcast(rec, ops) ==
    IF Broadcasts(rec, ops)
    THEN [i \in DOMAIN ops |->
             [ops[i] EXCEPT !.flags = @ \cup (IF i = rec.rm THEN {"BROADCAST"} ELSE {})]]
    ELSE ops

TdOperands(rec, e) ==
    IF rec.form = "UNSUPPORTED" THEN <<>>
    ELSE MarkBroadcast(rec, [i \in DOMAIN rec.ops |-> X86RoleOperand(rec, i, e)])
         \o ShiftCount(rec, e.c)

TdAttributes(rec, ops) ==
    IF rec.form = "UNSUPPORTED" THEN {}
    ELSE (IF rec.round # 0 \/ (rec.b /\ ~rec.isNd /\ ~Broadcasts(rec, ops))
          THEN {"SAE"} ELSE {})
         \cup (IF rec.nf THEN {"NF"} ELSE {})

\* Names that depend on the opcode or on a predicate.
TdMnemonic(rec, c, ops) ==
    CASE /\ rec.form # "UNSUPPORTED" /\ rec.vector = "NORMAL" /\ rec.map = 1
         /\ c.opcode \in 64..79 -> <<"cmov", c.opcode % 16>>
      [] /\ rec.form # "UNSUPPORTED" /\ rec.vector = "NORMAL" /\ rec.map = 1
         /\ c.opcode \in 144..159 -> <<"set", c.opcode % 16>>
      [] /\ c.map = 1 /\ c.opcode = 194 /\ rec.alias # "none" /\ ops # <<>>
         /\ ops[Len(ops)].kind = "IMM" -> <<rec.alias, ops[Len(ops)].imm % 8>>
      [] OTHER -> rec.mnemonic

PrefixFlags(c) ==
    LET rep == RedundantRep(c.map, c.opcode)
    IN  (IF c.lock THEN {"LOCK"} ELSE {})
        \cup (IF rep /\ c.f2 THEN {"REPNE"} ELSE {})
        \cup (IF rep /\ c.f3 /\ ~c.f2 THEN {"REP"} ELSE {})

(***************************************************************************)
(* Decoding.                                                               *)
(***************************************************************************)
DirectBranches == {232, 233, 235} \cup (112..127) \cup (224..226)
ShortBranches  == DirectBranches \ {232, 233}
LongConditions == 128..143

OperandSize16(c) == IF c.op16 THEN 2 ELSE 4
NearSize(c, mode) == IF mode = "x86_64" THEN 4 ELSE OperandSize16(c)

BranchNames(opcode, map) ==
    CASE map = 1 \/ opcode \in 112..127 -> <<"JCC_REL", <<"j", opcode % 16>>, "COND_BRANCH">>
      [] opcode \in 224..226 -> <<"LOOP_REL", <<"loop", opcode - 224>>, "COND_BRANCH">>
      [] opcode = 232 -> <<"CALL_REL", <<"call", 0>>, "DIRECT_CALL">>
      [] OTHER -> <<"JMP_REL", <<"jmp", 0>>, "DIRECT_BRANCH">>

BranchFlags ==
    [COND_BRANCH |-> {"PC_RELATIVE", "DIRECT", "CONDITIONAL"},
     DIRECT_CALL |-> {"PC_RELATIVE", "DIRECT", "CALL"},
     DIRECT_BRANCH |-> {"PC_RELATIVE", "DIRECT", "TERMINATOR"}]

\* x86_finish refuses an instruction that is too long; where its answer is
\* dropped the output keeps what it held.
TooLong(len) == len > MaxBytes
Finish(len, inst) == IF TooLong(len) THEN Decoding("DECODE_FAILED", NoX86Inst)
                     ELSE Decoding("OK", inst)

X86DecodeBranch(c, code, mode, address) ==
    LET size  == IF c.map = 0 /\ c.opcode \in ShortBranches THEN 1 ELSE NearSize(c, mode)
        len   == c.next + size
        names == BranchNames(c.opcode, c.map)
        pc    == X86PcRel(ReadSigned(code, c.next, size), size * 8, address + len)
        inst  == X86Inst(names[1], names[2], names[3],
                         PrefixFlags(c) \cup BranchFlags[names[3]], <<pc>>, len, address)
        stale == [NoX86Inst EXCEPT !.ops = <<pc>>,
                                   !.mnemonic = IF names[3] = "COND_BRANCH"
                                                THEN names[2] ELSE @]
    IN  IF len > Len(code) THEN Decoding("DECODE_FAILED", NoX86Inst)
        ELSE Decoding("OK", IF TooLong(len) THEN stale ELSE inst)

X86Environment(c, m, disp, code, immOff, mode, address, len) ==
    [c |-> c, m |-> m, disp |-> disp, code |-> code, immOff |-> immOff, mode |-> mode,
     address |-> address, len |-> len]

\* The instruction of a record: flags are those its bytes add, bare the operand
\* that stands for the displacement of a record that shows none.
KnownInst(rec, c, ops, flags, bare, len, address) ==
    [X86Inst(rec.id, TdMnemonic(rec, c, ops), rec.cls,
             rec.flags \cup PrefixFlags(c) \cup flags,
             IF ops = <<>> THEN bare ELSE ops, len, address)
     EXCEPT !.attrs = TdAttributes(rec, ops)]

X86DecodePlain(rec, c, code, mode, address) ==
    LET len == c.next + rec.immSize + rec.extraImm
        e   == X86Environment(c, NoModrm, 0, code, c.next, mode, address, len)
        pc  == X86PcRel(ReadSigned(code, c.next, rec.immSize), rec.immSize * 8, address + len)
    IN  IF len > Len(code) \/ TooLong(len) THEN Decoding("DECODE_FAILED", NoX86Inst)
        ELSE Decoding("OK",
                KnownInst(rec, [c EXCEPT !.map = 0], TdOperands(rec, e),
                          IF rec.pcRel THEN {"PC_RELATIVE"} ELSE {},
                          IF rec.pcRel THEN <<pc>> ELSE <<>>, len, address))

IoOpcodes == (228..231) \cup (236..239)
X86DecodeIo(c, code, address) ==
    LET size == IF c.opcode \in 228..231 THEN 1 ELSE 0
        len  == c.next + size
        out  == c.opcode \in {230, 231, 238, 239}
        port == IF size = 1 THEN X86Imm(ReadLe(code, c.next, 1), 8) ELSE X86Reg(Dx, 16)
        aw   == IF c.opcode % 2 = 0 THEN 8 ELSE IF c.op16 THEN 16 ELSE 32
        acc  == X86Reg(Accumulator(aw), aw)
        ops  == IF out THEN <<port, acc>> ELSE <<acc, port>>
    IN  IF len > Len(code) THEN Decoding("DECODE_FAILED", NoX86Inst)
        ELSE Decoding("OK",
                IF TooLong(len) THEN [NoX86Inst EXCEPT !.ops = ops]
                ELSE X86Inst("OTHER", IF out THEN <<"out", 0>> ELSE <<"in", 0>>,
                             IF out THEN "STORE" ELSE "LOAD", PrefixFlags(c), ops, len,
                             address))

\* An unknown opcode without ModRM is stepped over with its immediate.
X86DecodeUnknown(c, code, mode, address) ==
    LET size == CASE c.map # 0 -> 0
                  [] c.opcode \in 184..191 -> IF c.rex /\ c.w THEN 8 ELSE OperandSize16(c)
                  [] c.opcode = 104 -> OperandSize16(c)
                  [] c.opcode \in {106, 205, 228, 229, 230, 231} -> 1
                  [] OTHER -> 0
        len  == c.next + size
    IN  IF len > Len(code) THEN Decoding("DECODE_FAILED", NoX86Inst)
        ELSE Finish(len, X86Inst("OTHER", <<"other", 0>>, "OTHER", PrefixFlags(c), <<>>, len,
                                 address))

\* The size of the immediates of an opcode no record was found for.
UnknownImmediates(c, m) ==
    LET unary == m.reg \in {0, 1}
    IN  CASE /\ c.vec.kind # "NORMAL"
             /\ c.map = 3 \/ c.opcode = 194 \/ c.opcode \in 112..115 -> 1
          [] c.map = 0 /\ c.opcode \in {128, 130, 131, 192, 193, 107, 198} -> 1
          [] c.map = 0 /\ c.opcode \in {129, 105, 199} -> OperandSize16(c)
          [] c.map = 0 /\ c.opcode = 246 /\ unary -> 1
          [] c.map = 0 /\ c.opcode = 247 /\ unary -> OperandSize16(c)
          [] c.map = 1 /\ c.opcode \in {186, 164, 172} -> 1
          [] c.vec.kind = "NORMAL" /\ c.map = 1 /\ c.opcode = 15 -> 1
          [] OTHER -> 0

RmSpec(class, width) == [kind |-> "MEM", class |-> class, width |-> width]

MovsxdOperands(e) ==
    LET width == IF e.c.p66 THEN 16 ELSE 32
    IN  <<X86Reg(GprFromEncoding(e.m.reg + e.c.r, width, TRUE), width),
          IF e.m.mod = 3 THEN X86Reg(GprFromEncoding(e.m.rm + e.c.b, 32, TRUE), 32)
          ELSE RmMemory(e, 32)>>

CmovOperands(e) ==
    LET width == CASE e.c.p66 -> 16
                   [] e.mode = "x86_64" /\ e.c.w -> 64
                   [] OTHER -> 32
    IN  <<X86Reg(GprFromEncoding(e.m.reg + e.c.r, width, e.c.rex), width),
          RmOperand([e EXCEPT !.c.high = 0], RmSpec("GPR", width))>>

\* What is made of a ModRM instruction without a record.
UnknownModrm(e) ==
    LET c      == e.c
        normal == c.vec.kind = "NORMAL"
        make(id, name, cls, flags, ops) ==
            X86Inst(id, name, cls, flags \cup PrefixFlags(c), ops, e.len, e.address)
        pc == X86PcRel(ReadSigned(e.code, e.m.dispOff, 4), 32, e.address + e.len)
    IN  CASE normal /\ c.map = 0 /\ c.opcode = 99 /\ e.mode = "x86_64" /\ ~c.w ->
                make("OTHER", <<"movsxd", 0>>, "ALU", {}, MovsxdOperands(e))
          [] normal /\ c.map = 1 /\ c.opcode \in 64..79 ->
                make("OTHER", <<"cmov", c.opcode % 16>>, "ALU", {"CONDITIONAL"},
                     CmovOperands(e))
          [] normal /\ c.map = 1 /\ c.opcode \in 144..159 ->
                make("OTHER", <<"set", c.opcode % 16>>, "STORE", {},
                     <<RmOperand([e EXCEPT !.c.high = 0], RmSpec("GPR", 8))>>)
          [] e.m.pcRel -> make("RIP_REL", <<"other", 0>>, "OTHER", {"PC_RELATIVE"}, <<pc>>)
          [] OTHER -> make("OTHER", <<"other", 0>>, "OTHER", {}, <<>>)

KnownModrm(rec, e) ==
    LET pc    == X86PcRel(ReadSigned(e.code, e.m.dispOff, 4), 32, e.address + e.len)
        flags == (IF e.c.map = 0 /\ e.c.opcode = 255 /\ e.m.reg \in {2, 4}
                  THEN {"UNSUPPORTED_RELOC"} ELSE {})
                 \cup (IF e.m.pcRel THEN {"PC_RELATIVE"} ELSE {})
    IN  KnownInst(rec, e.c, TdOperands(rec, e), flags,
                  IF e.m.pcRel THEN <<pc>> ELSE <<>>, e.len, e.address)

Is3dnow(c) == c.vec.kind = "NORMAL" /\ c.map = 1 /\ c.opcode = 15

\* The instruction once the record is known, or known to be missing.
X86DecodeFound(rec, found, c, m, code, mode, address) ==
    LET imms == IF found.at = 0 THEN UnknownImmediates(c, m)
                ELSE Flag(Is3dnow(c), 1) + rec.immSize + rec.extraImm
        len  == m.next + imms
        disp == Displacement(c, m, code, IF found.at = 0 THEN 1 ELSE EvexScale(rec))
        e    == X86Environment(c, m, disp, code, m.next, mode, address, len)
    IN  IF found.blocked THEN Decoding("UNSUPPORTED_FEATURE", NoX86Inst)
        ELSE IF len > Len(code) \/ TooLong(len) THEN Decoding("DECODE_FAILED", NoX86Inst)
        ELSE Decoding("OK", IF found.at = 0 THEN UnknownModrm(e) ELSE KnownModrm(rec, e))

\* 0f 0f is followed by its operands and then by the opcode of the table.
X86DecodeModrmAt(table, feats, c, m, code, mode, address) ==
    LET look  == IF Is3dnow(c) THEN [c EXCEPT !.map = 7, !.opcode = code[m.next + 1]] ELSE c
        found == FindAllowed(table, feats, look, mode, m.byte)
    IN  IF ~m.ok \/ (Is3dnow(c) /\ m.next >= Len(code))
        THEN Decoding("DECODE_FAILED", NoX86Inst)
        ELSE X86DecodeFound(table[found.at], found, c, m, code, mode, address)

X86DecodeModrm(table, feats, c, code, mode, address) ==
    X86DecodeModrmAt(table, feats, c, X86Modrm(c, code, mode), code, mode, address)

HasModrm(table, c, mode) ==
    \/ Is3dnow(c)
    \/ c.vec.kind = "NORMAL" /\ c.map = 0 /\ c.opcode = 99 /\ mode = "x86_64"
    \/ GenericModrm(c)
    \/ MayHaveModrm(table, c, mode)

\* After the special cases; found is the record for the opcode without ModRM.
X86DecodeTable(found, table, feats, c, code, mode, address) ==
    LET normal == c.vec.kind = "NORMAL"
    IN  IF found.blocked THEN Decoding("UNSUPPORTED_FEATURE", NoX86Inst)
        ELSE IF found.at # 0 THEN X86DecodePlain(table[found.at], c, code, mode, address)
        ELSE IF ~normal /\ c.map = 1 /\ c.opcode \in LongConditions
             THEN X86DecodeBranch(c, code, mode, address)
        ELSE IF normal /\ c.map = 0 /\ c.opcode \in IoOpcodes
             THEN X86DecodeIo(c, code, address)
        ELSE IF HasModrm(table, c, mode)
             THEN X86DecodeModrm(table, feats, c, code, mode, address)
        ELSE X86DecodeUnknown(c, code, mode, address)

X86DecodeOpcode(table, feats, c, code, mode, address) ==
    LET normal == c.vec.kind = "NORMAL"
        next   == IF c.next < Len(code) THEN code[c.next + 1] ELSE 0
        simple(id, name, cls, len) ==
            Finish(len, X86Inst(id, name, cls, PrefixFlags(c), <<>>, len, address))
    IN  CASE normal /\ c.f3 /\ c.map = 1 /\ c.opcode = 30 /\ next \in {250, 251} ->
                simple("ENDBR", <<"endbr", next>>, "CET_ENDBR", c.next + 1)
          [] normal /\ c.map = 0 /\ c.opcode = 144 /\ ~c.f2 /\ ~c.f3 ->
                simple("NOP", <<"nop", 0>>, "NOP", c.next)
          [] \/ normal /\ c.map = 0 /\ c.opcode \in DirectBranches
             \/ normal /\ c.map = 1 /\ c.opcode \in LongConditions ->
                X86DecodeBranch(c, code, mode, address)
          [] OTHER -> X86DecodeTable(FindAllowed(table, feats, c, mode, -1),
                                     table, feats, c, code, mode, address)

\* p stands after the prefixes, c after the opcode.
X86DecodeFrom(p, c, table, feats, mode, code, address) ==
    IF p.at >= Len(code) \/ p.at >= MaxBytes \/ ~c.ok
    THEN Decoding("DECODE_FAILED", NoX86Inst)
    ELSE X86DecodeOpcode(table, feats, c, code, mode, address)

X86Decode(feats, mode, code, address) ==
    LET p == Prefixes(code, mode)
    IN  X86DecodeFrom(p, OpcodeOf(p, code, mode), X86Records, feats, mode, code, address)
=============================================================================
