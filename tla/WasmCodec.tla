----------------------------- MODULE WasmCodec ------------------------------
(***************************************************************************)
(* The WebAssembly decoder and encoder: a stream of bytes in which a       *)
(* number takes as many bytes as it needs (LEB128).                        *)
(*                                                                         *)
(* A byte is a payload of `Group' bits and a bit that says that more       *)
(* bytes follow; a word and a long are WordBytes and LongBytes such bytes. *)
(* In the library Group, WordBytes and LongBytes are 7, 4 and 8.           *)
(***************************************************************************)
EXTENDS CodecBase

CONSTANTS
    WasmRecords,    \* the table
    WasmPrefixes,   \* the bytes that announce a second opcode
    Group,          \* payload bits of a byte, 7
    WordBytes,      \* bytes of a 32-bit number, 4
    LongBytes       \* bytes of a 64-bit number, 8

ASSUME WasmAssumption == {Group, WordBytes, LongBytes} \subseteq Nat \ {0}

ByteBits == Group + 1
WordBits == WordBytes * ByteBits
LongBits == LongBytes * ByteBits
More     == Pow2(Group)

\* The bytes a number of `bits' bits takes at most: 5 for 32 and 10 for 64.
MaxLeb(bits) == (bits + Group - 1) \div Group

(***************************************************************************)
(* Reading and writing numbers.  A read answers with the value and the     *)
(* offset behind it, or with `ok' false.                                   *)
(***************************************************************************)
Read(ok, value, next) == [ok |-> ok, value |-> value, next |-> next]
NoRead == Read(FALSE, 0, 0)

\* Mutant of LebLength: the end of the code ends a number.
LebLengthToEnd(code, off, bits) ==
    LET last == {n \in 1..MaxLeb(bits) :
                    /\ off + n <= Len(code)
                    /\ code[off + n] < More \/ off + n = Len(code)
                    /\ \A k \in 1..(n - 1) : code[off + k] >= More}
    IN  IF last = {} THEN 0 ELSE LeastOf(last)

\* The length of the number at offset `off' of `code', 0 if it does not end
\* within the code or within the bytes it may have.
LebLength(code, off, bits) ==
    LET last == {n \in 1..MaxLeb(bits) :
                    /\ off + n <= Len(code)
                    /\ code[off + n] < More
                    /\ \A k \in 1..(n - 1) : code[off + k] >= More}
    IN  IF last = {} THEN 0 ELSE LeastOf(last)

LebPayload(code, off, n) ==
    LET sum[k \in 0..n] ==
            IF k = 0 THEN 0
            ELSE sum[k - 1] + (code[off + k] % More) * Pow2(Group * (k - 1))
    IN  sum[n]

\* Bits beyond the width of the number are shifted out and lost.
ReadUleb(code, off) ==
    LET n == LebLength(code, off, WordBits)
    IN  IF n = 0 THEN NoRead
        ELSE Read(TRUE, Wrap(LebPayload(code, off, n), WordBits), off + n)

ReadSleb(code, off) ==
    LET n     == LebLength(code, off, LongBits)
        shift == IF Group * n < LongBits THEN Group * n ELSE LongBits
    IN  IF n = 0 THEN NoRead
        ELSE Read(TRUE, Signed(LebPayload(code, off, n), shift), off + n)

UlebSize(value) == LeastOf({n \in 1..MaxLeb(WordBits) : value < Pow2(Group * n)})

\* Mutant of SlebSize: a number ends as soon as no magnitude is left.
SlebSizeUnsigned(value) ==
    LeastOf({n \in 1..MaxLeb(LongBits) :
                -Pow2(Group * n) <= value /\ value < Pow2(Group * n)})

SlebSize(value) ==
    LeastOf({n \in 1..MaxLeb(LongBits) : FitsSigned(value, Group * n)})

\* `n' bytes of a number, all but the last marked.
WriteLeb(value, n) ==
    [k \in 1..n |-> ((value \div Pow2(Group * (k - 1))) % More)
                    + (IF k < n THEN More ELSE 0)]

WriteUleb(value) == WriteLeb(value, UlebSize(value))
WriteSleb(value) == WriteLeb(value, SlebSize(value))

WriteBytes(value, n) ==
    [k \in 1..n |-> (value \div Pow2(ByteBits * (k - 1))) % Pow2(ByteBits)]

ReadBytes(code, off, n) ==
    LET sum[k \in 0..n] ==
            IF k = 0 THEN 0
            ELSE sum[k - 1] + code[off + k] * Pow2(ByteBits * (k - 1))
    IN  IF off + n > Len(code) THEN NoRead ELSE Read(TRUE, sum[n], off + n)

(***************************************************************************)
(* Operands.  The record names the code of each.                           *)
(***************************************************************************)
WasmOperand(kind, imm, width) == [kind |-> kind, imm |-> imm, width |-> width]

ReadOperand(opcode, code, off) ==
    CASE opcode \in {"BLOCKTYPE", "BYTE"} -> ReadBytes(code, off, 1)
      [] opcode \in {"INDEX", "ULEB"}     -> ReadUleb(code, off)
      [] opcode = "SLEB32" ->
            LET r == ReadSleb(code, off)
            IN  IF r.ok /\ FitsSigned(r.value, WordBits) THEN r ELSE NoRead
      [] opcode = "SLEB64" -> ReadSleb(code, off)
      [] opcode = "F32"    -> ReadBytes(code, off, WordBytes)
      [] opcode = "F64"    -> ReadBytes(code, off, LongBytes)

\* A block type is read as a signed byte and a double as a signed long.
Decoded(opcode, value) ==
    CASE opcode = "BLOCKTYPE" -> WasmOperand("BLOCKTYPE", Signed(value, ByteBits), 8)
      [] opcode = "BYTE"      -> WasmOperand("IMM", value, 8)
      [] opcode = "INDEX"     -> WasmOperand("INDEX", value, 32)
      [] opcode \in {"ULEB", "SLEB32", "F32"} -> WasmOperand("IMM", value, 32)
      [] opcode = "SLEB64"    -> WasmOperand("IMM", value, 64)
      [] opcode = "F64"       -> WasmOperand("IMM", Signed(value, LongBits), 64)

OperandKinds(opcode) ==
    CASE opcode = "BLOCKTYPE" -> {"BLOCKTYPE", "IMM"}
      [] opcode = "INDEX"     -> {"INDEX", "IMM"}
      [] OTHER                -> {"IMM"}

\* What the size of an operand is computed for; anything else is refused.
Encodable(opcode, imm) ==
    CASE opcode \in {"BLOCKTYPE", "BYTE"} -> -Pow2(Group) <= imm /\ imm < Pow2(ByteBits)
      [] opcode \in {"INDEX", "ULEB"}     -> FitsUnsigned(imm, WordBits)
      [] opcode = "SLEB32"                -> FitsSigned(imm, WordBits)
      [] OTHER                            -> TRUE

OperandSize(opcode, imm) ==
    CASE opcode \in {"BLOCKTYPE", "BYTE"} -> 1
      [] opcode \in {"INDEX", "ULEB"}     -> UlebSize(imm)
      [] opcode \in {"SLEB32", "SLEB64"}  -> SlebSize(imm)
      [] opcode = "F32"                   -> WordBytes
      [] opcode = "F64"                   -> LongBytes

WriteOperand(opcode, imm) ==
    CASE opcode \in {"BLOCKTYPE", "BYTE"} -> WriteBytes(imm, 1)
      [] opcode \in {"INDEX", "ULEB"}     -> WriteUleb(imm)
      [] opcode \in {"SLEB32", "SLEB64"}  -> WriteSleb(imm)
      [] opcode = "F32"                   -> WriteBytes(imm, WordBytes)
      [] opcode = "F64"                   -> WriteBytes(imm, LongBytes)

(***************************************************************************)
(* Records.  The decoder keeps the records of an opcode together in a      *)
(* range and finds the range by bisection; ranges are ordered by prefix    *)
(* and opcode.                                                             *)
(***************************************************************************)
Before(r, prefix, opcode) ==
    r.prefix < prefix \/ (r.prefix = prefix /\ r.opcode < opcode)

WasmKeys == {[prefix |-> WasmRecords[i].prefix, opcode |-> WasmRecords[i].opcode]
                : i \in DOMAIN WasmRecords}

WasmRanges ==
    [n \in 1..Cardinality(WasmKeys) |->
        CHOOSE r \in WasmKeys :
            Cardinality({q \in WasmKeys : Before(q, r.prefix, r.opcode)}) = n - 1]

\* The loop keeps lo and hi, counted from 0 as the table is.
Bisect(prefix, opcode) ==
    LET n == Len(WasmRanges)
        go[lo \in 0..n, hi \in 0..n] ==
            IF lo >= hi THEN lo
            ELSE LET mid == lo + (hi - lo) \div 2
                 IN  IF Before(WasmRanges[mid + 1], prefix, opcode)
                     THEN go[mid + 1, hi] ELSE go[lo, mid]
    IN  go[0, n]

OpcodeRange(prefix, opcode) ==
    LET lo == Bisect(prefix, opcode)
        r  == WasmRanges[lo + 1]
    IN  IF lo < Len(WasmRanges) /\ r.prefix = prefix /\ r.opcode = opcode
        THEN {i \in DOMAIN WasmRecords :
                 WasmRecords[i].prefix = prefix /\ WasmRecords[i].opcode = opcode}
        ELSE {}

\* In 64-bit mode a record of its own goes before the common one.
ModeMatches(rec, mode) == rec.mode64 => mode = "wasm64"

WasmPick(hits, feats, mode) ==
    LET free == {i \in hits : FeaturesMatch(feats, WasmRecords[i])}
        own  == {i \in free : mode = "wasm64" /\ WasmRecords[i].mode64}
        at   == IF own # {} THEN LeastOf(own)
                ELSE IF free # {} THEN LeastOf(free) ELSE 0
    IN  [at |-> at, blocked |-> \E i \in hits \ free : own = {} \/ i < at]

WasmFind(feats, prefix, opcode, mode) ==
    WasmPick({i \in OpcodeRange(prefix, opcode) : ModeMatches(WasmRecords[i], mode)},
             feats, mode)

(***************************************************************************)
(* Decoding.                                                               *)
(***************************************************************************)
WasmInst(id, mnemonic, cls, ops, size) ==
    [id |-> id, mnemonic |-> mnemonic, cls |-> cls, ops |-> ops, size |-> size]

NoWasmInst == WasmInst("none", "none", "OTHER", <<>>, 0)

ReadOperands(rec, code, off) ==
    LET n == Len(rec.codes)
        go[i \in 0..n] ==
            IF i = 0 THEN [ok |-> TRUE, ops |-> <<>>, next |-> off]
            ELSE LET before == go[i - 1]
                     r == IF before.ok
                          THEN ReadOperand(rec.codes[i], code, before.next)
                          ELSE NoRead
                 IN  IF ~r.ok THEN [ok |-> FALSE, ops |-> <<>>, next |-> 0]
                     ELSE [ok |-> TRUE, next |-> r.next,
                           ops |-> Append(before.ops, Decoded(rec.codes[i], r.value))]
    IN  go[n]

\* The operands start at `start'; without a record the opcode is all there is.
WasmDecodeFound(rec, found, prefixed, code, start) ==
    LET args == ReadOperands(rec, code, start)
    IN  IF found.at = 0 /\ found.blocked THEN Decoding("UNSUPPORTED_FEATURE", NoWasmInst)
        ELSE IF found.at = 0
             THEN Decoding("OK", WasmInst(IF prefixed THEN "PREFIXED" ELSE "OTHER",
                                          "other", "OTHER", <<>>, start))
        ELSE IF ~args.ok THEN Decoding("DECODE_FAILED", NoWasmInst)
        ELSE Decoding("OK", WasmInst(rec.id, rec.mnemonic, rec.cls, args.ops, args.next))

WasmLookUp(found, prefixed, code, start) ==
    WasmDecodeFound(WasmRecords[found.at], found, prefixed, code, start)

WasmDecode(feats, mode, code) ==
    LET prefixed == code # <<>> /\ code[1] \in WasmPrefixes
        second   == ReadUleb(code, 1)
    IN  IF code = <<>> \/ (prefixed /\ ~second.ok)
        THEN Decoding("DECODE_FAILED", NoWasmInst)
        ELSE WasmLookUp(WasmFind(feats, IF prefixed THEN code[1] ELSE 0,
                                 IF prefixed THEN second.value ELSE code[1], mode),
                        prefixed, code, IF prefixed THEN second.next ELSE 1)

(***************************************************************************)
(* Encoding.  A block may be given without its type and is then empty.     *)
(***************************************************************************)
EmptyBlock == Pow2(Group - 1)

WasmMatches(rec, inst, mode) ==
    /\ ModeMatches(rec, mode)
    /\ rec.mnemonic = inst.mnemonic
    /\ \/ Len(inst.ops) = Len(rec.codes)
       \/ inst.ops = <<>> /\ rec.codes = <<"BLOCKTYPE">>
    /\ \A i \in DOMAIN inst.ops : inst.ops[i].kind \in OperandKinds(rec.codes[i])

WasmChoose(feats, mode, inst) ==
    SearchTwice(
        Search(WasmRecords, feats,
               LAMBDA rec : inst.id # "none" /\ rec.id = inst.id /\ ModeMatches(rec, mode)),
        WasmPick({i \in DOMAIN WasmRecords : WasmMatches(WasmRecords[i], inst, mode)},
                 feats, mode))

\* An operand nobody set is zero, but for the type of a block.
WasmArgument(rec, inst, i) ==
    IF i <= Len(inst.ops) THEN inst.ops[i].imm
    ELSE IF inst.ops = <<>> /\ rec.codes[i] = "BLOCKTYPE"
         THEN EmptyBlock
    ELSE 0

OpcodeBytes(rec) ==
    IF rec.prefix # 0 THEN <<rec.prefix>> \o WriteUleb(rec.opcode) ELSE <<rec.opcode>>

\* Mutant of WasmSize: the prefix byte is not counted.
WasmSizeBare(rec, inst) ==
    LET sum[i \in 0..Len(rec.codes)] ==
            IF i = 0 THEN UlebSize(rec.opcode)
            ELSE sum[i - 1] + OperandSize(rec.codes[i], WasmArgument(rec, inst, i))
    IN  sum[Len(rec.codes)]

WasmSize(rec, inst) ==
    LET sum[i \in 0..Len(rec.codes)] ==
            IF i = 0 THEN IF rec.prefix # 0 THEN 1 + UlebSize(rec.opcode) ELSE 1
            ELSE sum[i - 1] + OperandSize(rec.codes[i], WasmArgument(rec, inst, i))
    IN  sum[Len(rec.codes)]

WasmBytes(rec, inst) ==
    LET out[i \in 0..Len(rec.codes)] ==
            IF i = 0 THEN OpcodeBytes(rec)
            ELSE out[i - 1] \o WriteOperand(rec.codes[i], WasmArgument(rec, inst, i))
    IN  out[Len(rec.codes)]

WasmEncode(feats, mode, inst, cap) ==
    LET found == WasmChoose(feats, mode, inst)
        rec   == WasmRecords[found.at]
        size  == WasmSize(rec, inst)
    IN  IF found.at = 0 THEN Encoding(NotFound(found), 0, <<>>)
        ELSE IF \E i \in DOMAIN rec.codes :
                   ~Encodable(rec.codes[i], WasmArgument(rec, inst, i))
             THEN Encoding("ENCODE_FAILED", 0, <<>>)
        ELSE IF cap < size THEN Encoding("OUTPUT_TOO_SMALL", size, <<>>)
        ELSE Encoding("OK", size, WasmBytes(rec, inst))
=============================================================================
